---------------------------- MODULE Spec2Model ----------------------------
(***************************************************************************)
(* A model of arc-spa-csp: the environment-resolution and HTML-detection   *)
(* pipeline that injects a Content-Security-Policy meta tag into the HTML  *)
(* entry point of a React, VITE or Angular application.                    *)
(*                                                                         *)
(* State: the process environment (env), the file system below the working *)
(* directory (fsys) and the record of the last call made (last).           *)
(* Paths are sequences of segments relative to the working directory.      *)
(* Variable names are sequences of tokens, the first being the framework   *)
(* prefix when there is one: <<"REACT_APP_", "API_URL">>.                   *)
(***************************************************************************)
EXTENDS Naturals, Sequences, FiniteSets, TLC

VARIABLES env, fsys, last

vars == <<env, fsys, last>>

\* ------------------------------------------------------------------------
\* Bounds of the model

\* Longest HTML document, in tokens, the HTML specification starts from.
MaxHtmlLen == 4

\* The number of inject calls in one behaviour of Spec
MaxInjectCalls == 1

\* ------------------------------------------------------------------------
\* Generic helpers

\* The value of an absent property (JavaScript's undefined), distinct from
\* the string 'undefined'.
Undefined == "<undefined>"

IsPrefix(p, q) == Len(p) <= Len(q) /\ SubSeq(q, 1, Len(p)) = p

\* Object.assign(a, b) / { ...a, ...b }: the keys of b override those of a.
Assign(a, b) == [k \in (DOMAIN a) \cup (DOMAIN b) |-> IF k \in DOMAIN b THEN b[k] ELSE a[k]]

EmptyMap == [k \in {} |-> Undefined]

Lookup(m, k) == IF k \in DOMAIN m THEN m[k] ELSE Undefined

SeqsUpTo(S, n) == UNION {[1..k -> S] : k \in 0..n}

\* ------------------------------------------------------------------------
\* Names of variables

ENV_PREFIXES == [REACT |-> "REACT_APP_", VITE |-> "VITE_", ANGULAR |-> "NG_"]

NODE_ENV == <<"NODE_ENV">>

startsWith(key, prefix) == Len(key) > 0 /\ Head(key) = prefix

\* ------------------------------------------------------------------------
\* NODE_ENV: the ambient mode flag

getNodeEnv(e) == Lookup(e, NODE_ENV)

isProduction(e) == getNodeEnv(e) = "production"

\* !process.env.NODE_ENV: unset or the empty string
NodeEnvFalsy(e) == getNodeEnv(e) \in {Undefined, ""}

\* A mutant of setupEnvironmentForMode that forgets to report the change of
\* an unset NODE_ENV.
setupEnvironmentForModeNoFlag(e, devMode) ==
    IF NodeEnvFalsy(e)
    THEN [env |-> Assign(e, [k \in {NODE_ENV} |-> IF devMode = "true" THEN "development" ELSE "production"]),
          shouldRestore |-> FALSE]
    ELSE IF devMode = "true" /\ getNodeEnv(e) = "production"
    THEN [env |-> Assign(e, [k \in {NODE_ENV} |-> "development"]), shouldRestore |-> TRUE]
    ELSE IF devMode = "false" /\ getNodeEnv(e) = "development"
    THEN [env |-> Assign(e, [k \in {NODE_ENV} |-> "production"]), shouldRestore |-> TRUE]
    ELSE [env |-> e, shouldRestore |-> FALSE]

\* A mutant of setupEnvironmentForMode that leaves an outer 'production'
\* in place when development mode is requested.
setupEnvironmentForModeKeepProd(e, devMode) ==
    IF NodeEnvFalsy(e)
    THEN [env |-> Assign(e, [k \in {NODE_ENV} |-> IF devMode = "true" THEN "development" ELSE "production"]),
          shouldRestore |-> TRUE]
    ELSE IF devMode = "false" /\ getNodeEnv(e) = "development"
    THEN [env |-> Assign(e, [k \in {NODE_ENV} |-> "production"]), shouldRestore |-> TRUE]
    ELSE [env |-> e, shouldRestore |-> FALSE]

\* setupEnvironmentForMode(devMode): devMode is "true", "false" or "omitted".
\* Returns the process environment it leaves and whether it changed it.
setupEnvironmentForMode(e, devMode) ==
    IF NodeEnvFalsy(e)
    THEN [env |-> Assign(e, [k \in {NODE_ENV} |-> IF devMode = "true" THEN "development" ELSE "production"]),
          shouldRestore |-> TRUE]
    ELSE IF devMode = "true" /\ getNodeEnv(e) = "production"
    THEN [env |-> Assign(e, [k \in {NODE_ENV} |-> "development"]), shouldRestore |-> TRUE]
    ELSE IF devMode = "false" /\ getNodeEnv(e) = "development"
    THEN [env |-> Assign(e, [k \in {NODE_ENV} |-> "production"]), shouldRestore |-> TRUE]
    ELSE [env |-> e, shouldRestore |-> FALSE]

\* delete process.env[key]
DeleteKey(e, key) == [k \in (DOMAIN e) \ {key} |-> e[k]]

\* restoreEnvironment(shouldRestore, originalNodeEnv) applied to environment e
restoreEnvironment(e, shouldRestore, originalNodeEnv) ==
    IF shouldRestore
    THEN IF originalNodeEnv # Undefined
         THEN Assign(e, [k \in {NODE_ENV} |-> originalNodeEnv])
         ELSE DeleteKey(e, NODE_ENV)
    ELSE e

\* ------------------------------------------------------------------------
\* The file system below the working directory
\*   html    : the HTML files, path -> content (a sequence of tokens)
\*   dotenv  : the .env files, path -> the NAME=VALUE lines, in file order
\*   ngenv   : the Angular environment files, path -> the properties of the
\*             exported object literal, in file order
\*   angular : angular.json of the working directory: its state ("absent",
\*             "invalid": not JSON, "ok") and the projects it declares, in
\*             declaration order
\*   pkg     : package.json of the working directory: its state ("absent",
\*             "invalid", "ok") and its dependencies and devDependencies
\*   config  : the CSP configuration files, path -> whether the text is
\*             JSON and the configuration object it holds
\*   other   : the other files that exist (vite.config.ts)
\*   order   : the order in which a directory listing returns entry names

NoAngularJson == [state |-> "absent", projects |-> <<>>]

InvalidAngularJson == [state |-> "invalid", projects |-> <<>>]

AngularJson(projects) == [state |-> "ok", projects |-> projects]

\* An angular.json that is valid JSON and has no projects property
AngularJsonNoProjects == [state |-> "noprojects", projects |-> <<>>]

\* The projectType the model gives an entry of projects that is null
NullEntry == "<null>"

NoPackageJson == [state |-> "absent", deps |-> {}]

PackageJson(deps) == [state |-> "ok", deps |-> deps]

\* an absent path-valued property
NoPath == <<Undefined>>

EmptyFS ==
    [html |-> EmptyMap, dotenv |-> EmptyMap, ngenv |-> EmptyMap, config |-> EmptyMap,
     angular |-> NoAngularJson, pkg |-> NoPackageJson, other |-> {}, order |-> <<>>]

Files(f) ==
    (DOMAIN f.html) \cup (DOMAIN f.dotenv) \cup (DOMAIN f.ngenv) \cup (DOMAIN f.config)
      \cup f.other
      \cup (IF f.angular.state = "absent" THEN {} ELSE {<<"angular.json">>})
      \cup (IF f.pkg.state = "absent" THEN {} ELSE {<<"package.json">>})

isDirectory(f, p) == \E q \in Files(f) : Len(p) < Len(q) /\ IsPrefix(p, q)

existsSync(f, p) == p \in Files(f) \/ isDirectory(f, p)

\* ------------------------------------------------------------------------
\* HTML documents: sequences of tokens.  A token is a run of whitespace, an
\* opening <head> tag, a <meta http-equiv=...> tag or any other text.

Ws == [kind |-> "ws", equiv |-> "", content |-> ""]

Txt == [kind |-> "txt", equiv |-> "", content |-> ""]

HeadTag == [kind |-> "head", equiv |-> "", content |-> ""]

MetaTag(equiv, content) == [kind |-> "meta", equiv |-> equiv, content |-> content]

CSP_EQUIV == "Content-Security-Policy"

CSP_RO_EQUIV == "Content-Security-Policy-Report-Only"

\* cspRegex of processHTMLContent: the meta tags it matches
IsCSPTag(t) == t.kind = "meta" /\ t.equiv \in {CSP_EQUIV, CSP_RO_EQUIV}

CountCSPTags(html) == Cardinality({i \in 1..Len(html) : IsCSPTag(html[i])})

\* [\r\n\s]* at position i: the length of the whitespace run starting there
RECURSIVE WsRun(_, _)
WsRun(html, i) ==
    IF i <= Len(html) /\ html[i].kind = "ws" THEN 1 + WsRun(html, i + 1) ELSE 0

\* html.replace(cspRegex, '') scanning from position i: each match is a
\* whitespace run, a CSP meta tag and the whitespace run after it.
RECURSIVE ReplaceCSPFrom(_, _)
ReplaceCSPFrom(html, i) ==
    IF i > Len(html) THEN <<>>
    ELSE LET j == i + WsRun(html, i)
         IN  IF j <= Len(html) /\ IsCSPTag(html[j])
             THEN ReplaceCSPFrom(html, j + 1 + WsRun(html, j + 1))
             ELSE <<html[i]>> \o ReplaceCSPFrom(html, i + 1)

\* The same replacement without the regex's g flag: the first match only.
RECURSIVE ReplaceFirstCSPFrom(_, _)
ReplaceFirstCSPFrom(html, i) ==
    IF i > Len(html) THEN <<>>
    ELSE LET j == i + WsRun(html, i)
         IN  IF j <= Len(html) /\ IsCSPTag(html[j])
             THEN SubSeq(html, j + 1 + WsRun(html, j + 1), Len(html))
             ELSE <<html[i]>> \o ReplaceFirstCSPFrom(html, i + 1)

\* A mutant of removeExistingCSP: only the first existing tag is removed.
removeFirstCSPOnly(html) == ReplaceFirstCSPFrom(html, 1)

\* processHTMLContent, first half: remove the existing CSP tags
removeExistingCSP(html) == ReplaceCSPFrom(html, 1)

FirstHead(html) ==
    IF \E i \in 1..Len(html) : html[i].kind = "head"
    THEN CHOOSE i \in 1..Len(html) :
            html[i].kind = "head" /\ \A k \in 1..(i - 1) : html[k].kind # "head"
    ELSE 0

\* injectMetaTag: after the first <head...> tag, else at the very start
injectMetaTag(html, metaTag) ==
    LET h == FirstHead(html)
    IN  IF h > 0
        THEN SubSeq(html, 1, h) \o <<Ws, metaTag>> \o SubSeq(html, h + 1, Len(html))
        ELSE <<metaTag, Ws>> \o html

processHTMLContent(html, csp, reportOnly) ==
    LET metaType == IF reportOnly THEN CSP_RO_EQUIV ELSE CSP_EQUIV
        metaTag  == MetaTag(metaType, csp)
    IN  [modifiedHtml |-> injectMetaTag(removeExistingCSP(html), metaTag),
         replacedTags |-> 1]

\* injector.injectCSP(htmlPath, cspString) for an injector whose
\* configuration has the given reportOnly flag: the outcome and the file
\* system it leaves.  A file that cannot be read makes it throw.
injectCSP(f, htmlPath, reportOnly, cspString) ==
    IF htmlPath \notin DOMAIN f.html
    THEN [threw |-> TRUE, fsys |-> f, replacedTags |-> 0, cspString |-> cspString]
    ELSE LET r == processHTMLContent(f.html[htmlPath], cspString, reportOnly)
         IN  [threw |-> FALSE,
              fsys |-> [f EXCEPT !.html = Assign(f.html, [p \in {htmlPath} |-> r.modifiedHtml])],
              replacedTags |-> r.replacedTags,
              cspString |-> cspString]

\* ------------------------------------------------------------------------
\* Specification SpecHtml: injectCSP calls on one HTML file

IndexHtml == <<"index.html">>

HtmlTokens ==
    {Ws, Txt, HeadTag, MetaTag("X-UA-Compatible", "IE=edge"),
     MetaTag(CSP_EQUIV, "default-src 'none'"), MetaTag(CSP_RO_EQUIV, "default-src 'none'")}

CspStrings == {"default-src 'self'", "default-src 'self'; script-src 'self'"}

InitHtml ==
    /\ env = EmptyMap
    /\ \E h \in SeqsUpTo(HtmlTokens, MaxHtmlLen) :
          fsys = [EmptyFS EXCEPT !.html = [p \in {IndexHtml} |-> h]]
    /\ last = [op |-> "none"]

InjectCSPCall ==
    \E path \in {IndexHtml, <<"missing.html">>}, reportOnly \in BOOLEAN, csp \in CspStrings :
       LET r == injectCSP(fsys, path, reportOnly, csp)
       IN  /\ fsys' = r.fsys
           /\ last' = [op |-> "injectCSP", path |-> path, reportOnly |-> reportOnly,
                       threw |-> r.threw, replacedTags |-> r.replacedTags,
                       cspString |-> r.cspString,
                       tagsBefore |-> IF r.threw THEN 0 ELSE CountCSPTags(fsys.html[path])]
           /\ UNCHANGED env

NextHtml == InjectCSPCall

SpecHtml == InitHtml /\ [][NextHtml]_vars

C5_ReplacedTagsCounts ==
    (last.op = "injectCSP" /\ ~last.threw) => last.replacedTags = last.tagsBefore

\* ------------------------------------------------------------------------
\* The HTML locator (html-detector.ts).  A search path is a path one of
\* whose segments may be "*".

\* A mutant of HTML_SEARCH_PATHS whose production list has no public/ fallback.
HTML_SEARCH_PATHS_NoPublic ==
    [DEV  |-> << <<"projects", "*", "src", "index.html">>, <<"src", "index.html">>,
                 <<"public", "index.html">>, <<"index.html">> >>,
     PROD |-> << <<"dist", "index.html">>, <<"build", "index.html">>,
                 <<"www", "index.html">>, <<"index.html">> >>]

HTML_SEARCH_PATHS ==
    [DEV  |-> << <<"projects", "*", "src", "index.html">>, <<"src", "index.html">>,
                 <<"public", "index.html">>, <<"index.html">> >>,
     PROD |-> << <<"dist", "index.html">>, <<"build", "index.html">>,
                 <<"www", "index.html">>, <<"public", "index.html">>, <<"index.html">> >>]

\* safeJsonParse(angular.json)?.projects as a sequence: nothing when the
\* file is absent or is not JSON
JsonProjects(f) == IF f.angular.state = "ok" THEN f.angular.projects ELSE <<>>

\* .filter(outputPath => !!outputPath)
RECURSIVE OutputPathsOf(_)
OutputPathsOf(projects) ==
    IF projects = <<>> THEN <<>>
    ELSE (IF Head(projects).outputPath = NoPath
          THEN <<>>
          ELSE << Head(projects).outputPath \o <<"index.html">> >>)
         \o OutputPathsOf(Tail(projects))

getAngularBuildPaths(f) == OutputPathsOf(JsonProjects(f))

\* A mutant of getHTMLSearchPaths that tries the generic production
\* locations before the build outputs angular.json declares.
getHTMLSearchPathsGenericFirst(f, devMode) ==
    IF devMode
    THEN HTML_SEARCH_PATHS.DEV
    ELSE << <<"dist", "*", "index.html">> >> \o HTML_SEARCH_PATHS.PROD \o getAngularBuildPaths(f)

getHTMLSearchPaths(f, devMode) ==
    IF devMode
    THEN HTML_SEARCH_PATHS.DEV
    ELSE getAngularBuildPaths(f) \o << <<"dist", "*", "index.html">> >> \o HTML_SEARCH_PATHS.PROD

\* path.dirname of a relative path ('.' for a bare file name)
dirname(p) == IF Len(p) <= 1 THEN <<".">> ELSE SubSeq(p, 1, Len(p) - 1)

HasStar(p) == \E i \in 1..Len(p) : p[i] = "*"

StarAt(p) == CHOOSE i \in 1..Len(p) : p[i] = "*" /\ \A k \in 1..(i - 1) : p[k] # "*"

Null == [kind |-> "null"]

Throws == [kind |-> "throws"]

\* createHTMLDetectionResult: reads the file (and throws when it cannot)
createHTMLDetectionResult(f, fullPath, htmlPath) ==
    IF fullPath \notin DOMAIN f.html
    THEN Throws
    ELSE [kind |-> "found", path |-> fullPath, buildDir |-> dirname(htmlPath),
          hasExistingCSP |-> \E i \in 1..Len(f.html[fullPath]) : IsCSPTag(f.html[fullPath][i])]

\* fs.readdirSync(dir) filtered to the directories, in listing order
SubDirs(f, dir) == SelectSeq(f.order, LAMBDA n : isDirectory(f, dir \o <<n>>))

\* the loop of searchGlobPattern over the sub-directories
RECURSIVE GlobLoop(_, _, _, _)
GlobLoop(f, searchDir, subdirs, afterStar) ==
    IF subdirs = <<>> THEN Null
    ELSE LET potentialPath == searchDir \o <<Head(subdirs)>> \o afterStar
         IN  IF existsSync(f, potentialPath)
             THEN LET r == createHTMLDetectionResult(f, potentialPath, potentialPath)
                  IN  IF r.kind = "throws" THEN Null ELSE r
             ELSE GlobLoop(f, searchDir, Tail(subdirs), afterStar)

searchGlobPattern(f, htmlPath) ==
    LET star       == StarAt(htmlPath)
        beforeStar == SubSeq(htmlPath, 1, star - 1)
        afterStar  == SubSeq(htmlPath, star + 1, Len(htmlPath))
    IN  IF beforeStar = <<>> THEN Null
        ELSE IF ~existsSync(f, beforeStar) THEN Null
        ELSE IF ~isDirectory(f, beforeStar) THEN Null
        ELSE GlobLoop(f, beforeStar, SubDirs(f, beforeStar), afterStar)

findHTMLFile(f, htmlPath) ==
    IF HasStar(htmlPath) THEN searchGlobPattern(f, htmlPath)
    ELSE IF existsSync(f, htmlPath) THEN createHTMLDetectionResult(f, htmlPath, htmlPath)
    ELSE Null

RECURSIVE DetectLoop(_, _)
DetectLoop(f, searchPaths) ==
    IF searchPaths = <<>> THEN Null
    ELSE LET result == findHTMLFile(f, Head(searchPaths))
         IN  IF result.kind # "null" THEN result ELSE DetectLoop(f, Tail(searchPaths))

detectHTML(f, devMode) == DetectLoop(f, getHTMLSearchPaths(f, devMode))

\* ------------------------------------------------------------------------
\* Specification SpecDetect: detectHTML over every set of candidate files

BasicHtml == <<Txt, HeadTag, Txt>>

\* An angular.json project entry
Project(name, type, root, sourceRoot, outputPath) ==
    [name |-> name, projectType |-> type, root |-> root, sourceRoot |-> sourceRoot,
     outputPath |-> outputPath]

App1 == Project("app1", "application", <<"projects", "app1">>, <<"projects", "app1", "src">>,
                <<"out", "app1">>)

App2 == Project("app2", "application", <<"projects", "app2">>, <<"projects", "app2", "src">>,
                <<"dist", "app2">>)

DetectHtmlFiles ==
    {<<"projects", "app1", "src", "index.html">>, <<"projects", "app2", "src", "index.html">>,
     <<"src", "index.html">>, <<"public", "index.html">>, <<"index.html">>,
     <<"out", "app1", "index.html">>, <<"dist", "app1", "index.html">>,
     <<"dist", "app2", "index.html">>, <<"dist", "index.html">>,
     <<"build", "index.html">>, <<"www", "index.html">>}

DetectAngular ==
    {NoAngularJson, InvalidAngularJson, AngularJson(<<App1>>), AngularJson(<<App1, App2>>),
     AngularJson(<<App2, App1>>), AngularJson(<<[App1 EXCEPT !.outputPath = NoPath]>>)}

DirOrders == {<<"app1", "app2">>, <<"app2", "app1">>}

InitDetect ==
    /\ env = EmptyMap
    /\ \E files \in SUBSET DetectHtmlFiles, ng \in DetectAngular, order \in DirOrders,
          other \in SUBSET {<<"projects", "app1", "tsconfig.json">>} :
          fsys = [EmptyFS EXCEPT !.html = [p \in files |-> BasicHtml], !.angular = ng,
                                 !.order = order, !.other = other]
    /\ last = [op |-> "none"]

DetectHTMLCall ==
    \E devMode \in BOOLEAN :
       /\ last' = [op |-> "detectHTML", devMode |-> devMode, result |-> detectHTML(fsys, devMode)]
       /\ UNCHANGED <<env, fsys>>

NextDetect == DetectHTMLCall

SpecDetect == InitDetect /\ [][NextDetect]_vars

PublicIndex == <<"public", "index.html">>

\* C6 as claimed: detectHTML(false) where the only HTML file is
\* public/index.html (no dist, build or www output, no angular.json) returns null.
C6_PublicOnlyIsNull ==
    (/\ last.op = "detectHTML" /\ ~last.devMode
     /\ DOMAIN fsys.html = {PublicIndex} /\ fsys.angular = NoAngularJson)
        => last.result.kind = "null"

\* C6 amended: in that directory detectHTML(false) returns public/index.html,
\* the production list's fallback, with build directory public.
C6_PublicOnlyIsFound ==
    (/\ last.op = "detectHTML" /\ ~last.devMode
     /\ DOMAIN fsys.html = {PublicIndex} /\ fsys.angular = NoAngularJson)
        => /\ last.result.kind = "found"
           /\ last.result.path = PublicIndex
           /\ last.result.buildDir = <<"public">>

\* C6 witness: detectHTML(false) was called where only public/index.html exists.
C6_Witness ==
    /\ last.op = "detectHTML" /\ ~last.devMode
    /\ DOMAIN fsys.html = {PublicIndex} /\ fsys.angular = NoAngularJson
    /\ last.result.kind = "found"

\* The ordered candidate list as the claim C7 gives it.
C7_OutputCandidates ==
    IF fsys.angular.state # "ok" THEN <<>>
    ELSE LET withOut == SelectSeq(fsys.angular.projects, LAMBDA pr : pr.outputPath # NoPath)
         IN  [i \in 1..Len(withOut) |-> withOut[i].outputPath \o <<"index.html">>]

C7_Candidates(devMode) ==
    IF devMode
    THEN << <<"projects", "*", "src", "index.html">>, <<"src", "index.html">>,
            <<"public", "index.html">>, <<"index.html">> >>
    ELSE C7_OutputCandidates \o
         << <<"dist", "*", "index.html">>, <<"dist", "index.html">>, <<"build", "index.html">>,
            <<"www", "index.html">>, <<"public", "index.html">>, <<"index.html">> >>

C7_Matches(pattern, file) ==
    /\ Len(pattern) = Len(file)
    /\ \A i \in 1..Len(pattern) : pattern[i] = "*" \/ pattern[i] = file[i]

\* the position of the first candidate a file satisfies, 0 when it satisfies none
C7_Rank(devMode, file) ==
    LET list == C7_Candidates(devMode)
        hits == {i \in 1..Len(list) : C7_Matches(list[i], file)}
    IN  IF hits = {} THEN 0 ELSE CHOOSE i \in hits : \A k \in hits : i <= k

\* C7: detectHTML returns a file of the earliest candidate that exists in
\* the mode's ordered list, and null (without throwing) when none exists.
C7_FirstCandidateWins ==
    last.op = "detectHTML" =>
        LET existing == {p \in DOMAIN fsys.html : C7_Rank(last.devMode, p) > 0}
        IN  IF existing = {}
            THEN last.result.kind = "null"
            ELSE /\ last.result.kind = "found"
                 /\ last.result.path \in existing
                 /\ \A q \in existing :
                       C7_Rank(last.devMode, last.result.path) <= C7_Rank(last.devMode, q)

\* C7 witness: a production detection decided by an angular.json output path
\* while generic build locations exist as well.
C7_Witness ==
    /\ last.op = "detectHTML" /\ ~last.devMode
    /\ last.result.kind = "found"
    /\ last.result.path = <<"out", "app1", "index.html">>
    /\ {<<"dist", "index.html">>, <<"dist", "app2", "index.html">>} \subseteq DOMAIN fsys.html

\* ------------------------------------------------------------------------
\* The environment loader (utils/environment): values

\* String.prototype.trim, for the white space of the model
RECURSIVE trim(_)
trim(text) ==
    IF text = "" THEN ""
    ELSE IF SubSeq(text, 1, 1) \in {" ", "\t"} THEN trim(SubSeq(text, 2, Len(text)))
    ELSE IF SubSeq(text, Len(text), Len(text)) \in {" ", "\t"}
    THEN trim(SubSeq(text, 1, Len(text) - 1))
    ELSE text

\* The quote characters of the patterns
Quotes == {"'", "\""}

\* /^['"]?\s*['"]?$/ matches value: white space only, between an optional
\* leading and an optional trailing quote
MatchesQuotedBlank(value) ==
    \E a \in 0..1, b \in 0..1 :
       /\ a + b <= Len(value)
       /\ a = 1 => SubSeq(value, 1, 1) \in Quotes
       /\ b = 1 => SubSeq(value, Len(value), Len(value)) \in Quotes
       /\ trim(SubSeq(value, 1 + a, Len(value) - b)) = ""

\* isValidEnvironmentValue(value): not falsy, not blank, not 'undefined',
\* not 'null', no match of the pattern
isValidEnvironmentValue(value) ==
    /\ value # Undefined
    /\ value # ""
    /\ trim(value) # ""
    /\ value # "undefined"
    /\ value # "null"
    /\ ~MatchesQuotedBlank(value)

filterValidEnvironmentVariables(envVars) ==
    [k \in {x \in DOMAIN envVars : isValidEnvironmentValue(envVars[x])} |-> envVars[k]]

\* value.replace(/^["'](.*)["']$/, '$1'): a value that starts with a quote
\* and ends with a quote loses both
StripQuotes(value) ==
    IF /\ Len(value) >= 2
       /\ SubSeq(value, 1, 1) \in Quotes
       /\ SubSeq(value, Len(value), Len(value)) \in Quotes
    THEN SubSeq(value, 2, Len(value) - 1)
    ELSE value

\* ------------------------------------------------------------------------
\* React / VITE: .env files.  A line is an assignment NAME=VALUE (a match of
\* ENV_FILE_LINE) or anything else (blank, comment, no match).

EnvLine(key, value) == [kind |-> "assign", key |-> key, value |-> value]

CommentLine == [kind |-> "comment", key |-> <<>>, value |-> ""]

RECURSIVE ParseEnvLines(_, _, _)
ParseEnvLines(lines, prefix, envVars) ==
    IF lines = <<>> THEN envVars
    ELSE LET line == Head(lines)
         IN  IF line.kind = "assign" /\ startsWith(line.key, prefix)
             THEN ParseEnvLines(Tail(lines), prefix,
                                Assign(envVars, [k \in {line.key} |-> StripQuotes(line.value)]))
             ELSE ParseEnvLines(Tail(lines), prefix, envVars)

\* parseEnvFile(envPath, prefix): an unreadable file yields the empty map
parseEnvFile(f, envPath, prefix) ==
    IF envPath \notin DOMAIN f.dotenv THEN EmptyMap
    ELSE ParseEnvLines(f.dotenv[envPath], prefix, EmptyMap)

envModeOf(e) == IF isProduction(e) THEN "production" ELSE "development"

DotEnvName(envMode, local) ==
    CASE envMode = "production" /\ ~local  -> ".env.production"
      [] envMode = "production" /\ local   -> ".env.production.local"
      [] envMode = "development" /\ ~local -> ".env.development"
      [] envMode = "development" /\ local  -> ".env.development.local"

\* A mutant of ReactEnvFiles that reads .env.local before .env.<mode>.
ReactEnvFilesLocalEarly(envMode) ==
    <<".env", ".env.local", DotEnvName(envMode, FALSE), DotEnvName(envMode, TRUE)>>

\* envFiles of loadReactEnv
ReactEnvFiles(envMode) ==
    <<".env", DotEnvName(envMode, FALSE), ".env.local", DotEnvName(envMode, TRUE)>>

RECURSIVE LoadEnvFiles(_, _, _, _)
LoadEnvFiles(f, projectRoot, envFiles, envVars) ==
    IF envFiles = <<>> THEN envVars
    ELSE LET envPath == projectRoot \o <<Head(envFiles)>>
         IN  IF existsSync(f, envPath)
             THEN LoadEnvFiles(f, projectRoot, Tail(envFiles),
                     Assign(Assign(envVars, parseEnvFile(f, envPath, ENV_PREFIXES.REACT)),
                            parseEnvFile(f, envPath, ENV_PREFIXES.VITE)))
             ELSE LoadEnvFiles(f, projectRoot, Tail(envFiles), envVars)

\* the process variables loadReactEnv overlays
ProcessFrameworkVars(e) ==
    [k \in {x \in DOMAIN e : /\ (startsWith(x, ENV_PREFIXES.REACT) \/ startsWith(x, ENV_PREFIXES.VITE))
                             /\ e[x] # Undefined} |-> e[k]]

loadReactEnv(f, e, projectRoot) ==
    Assign(LoadEnvFiles(f, projectRoot, ReactEnvFiles(envModeOf(e)), EmptyMap),
           ProcessFrameworkVars(e))

\* ------------------------------------------------------------------------
\* Angular: environment files.  The content of one is whether it holds the
\* export (a match of ENVIRONMENT_EXPORT) and the properties of the object
\* literal, in file order: [key, value], value being the text of a quoted
\* string or of a bare word such as true.

ENVIRONMENT_FILES == [ANGULAR |-> [DEV |-> "environment.ts", PROD |-> "environment.prod.ts"]]

NgEnvFile(props) == [export |-> TRUE, props |-> props]

Prop(key, value) == [key |-> key, value |-> value]

\* /^[A-Z0-9_]+$/.test(key), on the property names the model writes
IsUpperSnakeKey(key) == key \in {"API_KEY", "CDN"}

\* camelCaseToUpperCase(key), on the property names the model writes
camelCaseToUpperCase(key) ==
    CASE key = "apiUrl"     -> "API_URL"
      [] key = "cdnUrl"     -> "CDN_URL"
      [] key = "production" -> "PRODUCTION"
      [] key = "feature"    -> "FEATURE"
      [] key = "API_KEY"    -> "A_P_I__K_E_Y"
      [] key = "CDN"        -> "C_D_N"

NgEnvKey(key) ==
    IF IsUpperSnakeKey(key)
    THEN <<ENV_PREFIXES.ANGULAR, key>>
    ELSE <<ENV_PREFIXES.ANGULAR, camelCaseToUpperCase(key)>>

RECURSIVE ParseNgProps(_, _)
ParseNgProps(props, envVars) ==
    IF props = <<>> THEN envVars
    ELSE LET pr == Head(props)
         IN  IF isValidEnvironmentValue(pr.value) /\ pr.value # "false" /\ pr.value # "true"
             THEN ParseNgProps(Tail(props),
                               Assign(envVars, [k \in {NgEnvKey(pr.key)} |-> pr.value]))
             ELSE ParseNgProps(Tail(props), envVars)

\* parseAngularEnvFile(envPath)
parseAngularEnvFile(f, envPath) ==
    IF envPath \notin DOMAIN f.ngenv THEN EmptyMap
    ELSE IF ~f.ngenv[envPath].export THEN EmptyMap
    ELSE ParseNgProps(f.ngenv[envPath].props, EmptyMap)

\* loadAngularWorkspace(projectRoot): the parsed angular.json of that
\* directory, or null.  The model holds one angular.json, in the working
\* directory.
loadAngularWorkspace(f, projectRoot) ==
    IF projectRoot = <<>> /\ f.angular.state \in {"ok", "noprojects"}
    THEN f.angular ELSE NoAngularJson

\* path.join(projectRoot, config.sourceRoot || 'src', 'environments', envFile)
ProjectEnvPath(projectRoot, config, envFile) ==
    projectRoot \o (IF config.sourceRoot = NoPath THEN <<"src">> ELSE config.sourceRoot)
                \o <<"environments", envFile>>

\* !relativePath.startsWith('..') && !path.isAbsolute(relativePath) for
\* relativePath = path.relative(projectBasePath, normalizedPath)
ContainsPath(projectBasePath, normalizedPath) == IsPrefix(projectBasePath, normalizedPath)

\* findProjectForHtmlPath: the environment file of the first declared
\* application whose root contains the HTML path
RECURSIVE findProjectForHtmlPath(_, _, _, _, _)
findProjectForHtmlPath(f, projects, projectRoot, targetHtmlPath, envFile) ==
    IF projects = <<>> THEN EmptyMap
    ELSE LET config == Head(projects)
             projectBasePath == projectRoot \o (IF config.root = NoPath THEN <<>> ELSE config.root)
         IN  IF /\ config.projectType = "application"
                /\ ContainsPath(projectBasePath, targetHtmlPath)
             THEN parseAngularEnvFile(f, ProjectEnvPath(projectRoot, config, envFile))
             ELSE findProjectForHtmlPath(f, Tail(projects), projectRoot, targetHtmlPath, envFile)

RECURSIVE loadAllWorkspaceProjects(_, _, _, _)
loadAllWorkspaceProjects(f, projects, projectRoot, envFile) ==
    IF projects = <<>> THEN EmptyMap
    ELSE LET config == Head(projects)
             rest   == loadAllWorkspaceProjects(f, Tail(projects), projectRoot, envFile)
         IN  IF config.projectType = "application"
             THEN Assign(parseAngularEnvFile(f, ProjectEnvPath(projectRoot, config, envFile)), rest)
             ELSE rest

\* The TypeError of findProjectForHtmlPath: config.projectType read on an
\* entry that is null, before an application that contains the path ends
\* the loop
RECURSIVE findProjectForHtmlPathThrows(_, _, _)
findProjectForHtmlPathThrows(projects, projectRoot, targetHtmlPath) ==
    IF projects = <<>> THEN FALSE
    ELSE LET config == Head(projects)
             projectBasePath == projectRoot \o (IF config.root = NoPath THEN <<>> ELSE config.root)
         IN  IF config.projectType = NullEntry THEN TRUE
             ELSE IF /\ config.projectType = "application"
                     /\ ContainsPath(projectBasePath, targetHtmlPath)
             THEN FALSE
             ELSE findProjectForHtmlPathThrows(Tail(projects), projectRoot, targetHtmlPath)

\* The TypeError of loadAllWorkspaceProjects, whose loop visits every entry
loadAllWorkspaceProjectsThrows(projects) ==
    \E i \in 1..Len(projects) : projects[i].projectType = NullEntry

\* loadAngularEnv throws: Object.entries(workspace.projects) on a workspace
\* without projects, or one of the two loops on a null entry
loadAngularEnvThrows(f, e, projectRoot, targetHtmlPath) ==
    LET envFile == IF isProduction(e) THEN ENVIRONMENT_FILES.ANGULAR.PROD
                                      ELSE ENVIRONMENT_FILES.ANGULAR.DEV
        workspace == loadAngularWorkspace(f, projectRoot)
    IN  \/ workspace.state = "noprojects"
        \/ /\ workspace.state = "ok"
           /\ IF targetHtmlPath # NoPath
              THEN \/ findProjectForHtmlPathThrows(workspace.projects, projectRoot,
                                                   targetHtmlPath)
                   \/ /\ DOMAIN findProjectForHtmlPath(f, workspace.projects, projectRoot,
                                                       targetHtmlPath, envFile) = {}
                      /\ loadAllWorkspaceProjectsThrows(workspace.projects)
              ELSE loadAllWorkspaceProjectsThrows(workspace.projects)

\* loadAngularEnv(projectRoot, targetHtmlPath); NoPath when no target is given
loadAngularEnv(f, e, projectRoot, targetHtmlPath) ==
    LET envFile == IF isProduction(e) THEN ENVIRONMENT_FILES.ANGULAR.PROD
                                      ELSE ENVIRONMENT_FILES.ANGULAR.DEV
        workspace   == loadAngularWorkspace(f, projectRoot)
        projectVars == IF workspace.state = "ok" /\ targetHtmlPath # NoPath
                       THEN findProjectForHtmlPath(f, workspace.projects, projectRoot,
                                                   targetHtmlPath, envFile)
                       ELSE EmptyMap
        workspaceVars == IF workspace.state = "ok"
                         THEN loadAllWorkspaceProjects(f, workspace.projects, projectRoot, envFile)
                         ELSE EmptyMap
    IN  IF DOMAIN projectVars # {} THEN projectVars
        ELSE IF DOMAIN workspaceVars # {} THEN workspaceVars
        ELSE parseAngularEnvFile(f, projectRoot \o <<"src", "environments", envFile>>)

\* ------------------------------------------------------------------------
\* Project detection (utils/project-detection) as the loader uses it

hasAngularEnvironmentFiles(f, projectRoot) ==
    \/ existsSync(f, projectRoot \o <<"src", "environments">>)
    \/ existsSync(f, projectRoot \o <<"projects">>)

isAngularProject(f, projectRoot) ==
    \/ existsSync(f, projectRoot \o <<"angular.json">>)
    \/ existsSync(f, projectRoot \o <<".angular-cli.json">>)
    \/ hasAngularEnvironmentFiles(f, projectRoot)

\* package.json of the directory lists react or @types/react; the model
\* holds one package.json, in the working directory
isReactProject(f, projectRoot) ==
    /\ projectRoot = <<>>
    /\ f.pkg.state = "ok"
    /\ f.pkg.deps \cap {"react", "@types/react"} # {}

\* loadEnvironmentVariables throws what loadAngularEnv throws
loadEnvironmentVariablesThrows(f, e, projectRoot, targetHtmlPath) ==
    IF isAngularProject(f, projectRoot)
    THEN loadAngularEnvThrows(f, e, projectRoot, targetHtmlPath)
    ELSE IF isReactProject(f, projectRoot) THEN FALSE
    ELSE loadAngularEnvThrows(f, e, projectRoot, targetHtmlPath)

\* loadEnvironmentVariables without its final filter
loadEnvironmentVariablesUnfiltered(f, e, projectRoot, targetHtmlPath) ==
    IF isAngularProject(f, projectRoot)
    THEN loadAngularEnv(f, e, projectRoot, targetHtmlPath)
    ELSE IF isReactProject(f, projectRoot)
    THEN loadReactEnv(f, e, projectRoot)
    ELSE Assign(loadReactEnv(f, e, projectRoot),
                loadAngularEnv(f, e, projectRoot, targetHtmlPath))

\* loadEnvironmentVariables(projectRoot, targetHtmlPath) of utils/environment
loadEnvironmentVariables(f, e, projectRoot, targetHtmlPath) ==
    LET envVars ==
          IF isAngularProject(f, projectRoot)
          THEN loadAngularEnv(f, e, projectRoot, targetHtmlPath)
          ELSE IF isReactProject(f, projectRoot)
          THEN loadReactEnv(f, e, projectRoot)
          ELSE Assign(loadReactEnv(f, e, projectRoot),
                      loadAngularEnv(f, e, projectRoot, targetHtmlPath))
    IN  filterValidEnvironmentVariables(envVars)

\* ------------------------------------------------------------------------
\* Specification SpecEnv: the environment loader over React / VITE projects
\* with every combination of .env files, and over Angular workspaces with
\* every declaration order of their projects

REACT_APP_API_URL == <<ENV_PREFIXES.REACT, "API_URL">>

VITE_API_URL == <<ENV_PREFIXES.VITE, "API_URL">>

VITE_QUOTES == <<ENV_PREFIXES.VITE, "QUOTES">>

NG_API_URL == <<ENV_PREFIXES.ANGULAR, "API_URL">>

NG_API_KEY == <<ENV_PREFIXES.ANGULAR, "API_KEY">>

DotEnvNames ==
    {".env", ".env.development", ".env.production", ".env.local",
     ".env.development.local", ".env.production.local"}

\* The content of the .env file called name, of the given kind
DotEnvContent(name, kind) ==
    IF kind = "react"
    THEN <<CommentLine, EnvLine(<<"SECRET">>, "s3cret"),
           EnvLine(REACT_APP_API_URL, "https://stale.example.com"),
           EnvLine(REACT_APP_API_URL, "https://" \o name \o ".example.com")>>
    ELSE <<EnvLine(VITE_API_URL, "\"https://quoted.example.com\""),
           EnvLine(VITE_QUOTES, "'''''")>>

\* The .env files of a layout: kinds maps each file name to "absent",
\* "react" or "vite"
DotEnvFiles(kinds) ==
    [p \in {<<n>> : n \in {x \in DotEnvNames : kinds[x] # "absent"}} |->
        DotEnvContent(p[1], kinds[p[1]])]

NodeEnvValues == {Undefined, "", "development", "production", "test"}

\* The process environment with NODE_ENV = nodeEnv and
\* REACT_APP_API_URL = apiUrl (Undefined: not set)
ProcessEnv(nodeEnv, apiUrl) ==
    Assign(IF nodeEnv = Undefined THEN EmptyMap ELSE [k \in {NODE_ENV} |-> nodeEnv],
           IF apiUrl = Undefined THEN EmptyMap ELSE [k \in {REACT_APP_API_URL} |-> apiUrl])

Main == Project("main", "application", <<>>, <<"src">>, <<"dist", "main">>)

Lib == Project("lib", "library", <<"projects", "lib">>, <<"projects", "lib", "src">>, NoPath)

\* The environment files of the project whose source root is sourceRoot:
\* kind "urls" declares apiUrl, with one value per project and per mode
NgEnvFiles(owner, sourceRoot, kind) ==
    IF kind = "absent" THEN EmptyMap
    ELSE LET dev  == sourceRoot \o <<"environments", ENVIRONMENT_FILES.ANGULAR.DEV>>
             prod == sourceRoot \o <<"environments", ENVIRONMENT_FILES.ANGULAR.PROD>>
         IN  IF kind = "flags"
             THEN [p \in {dev, prod} |->
                     NgEnvFile(<<Prop("production", IF p = prod THEN "true" ELSE "false")>>)]
             ELSE [p \in {dev, prod} |->
                     NgEnvFile(<<Prop("production", IF p = prod THEN "true" ELSE "false"),
                                 Prop("apiUrl", IF p = prod THEN "https://" \o owner \o ".com"
                                                ELSE "https://dev." \o owner \o ".com"),
                                 Prop("API_KEY", "key-" \o owner)>>)]

NgEnvKinds == {"absent", "flags", "urls"}

WorkspaceProjects ==
    {<<App1>>, <<Lib, App1>>, <<[App1 EXCEPT !.sourceRoot = NoPath]>>,
     <<Main, App1>>, <<App1, Main>>, <<App1, App2>>, <<App2, App1>>,
     <<Main, App2>>, <<App2, Main>>,
     <<Main, App1, App2>>, <<Main, App2, App1>>, <<App1, Main, App2>>,
     <<App1, App2, Main>>, <<App2, Main, App1>>, <<App2, App1, Main>>}

EnvAngular == {NoAngularJson, InvalidAngularJson} \cup {AngularJson(s) : s \in WorkspaceProjects}

InitEnvReact ==
    \E kinds \in {k \in [DotEnvNames -> {"absent", "react", "vite"}] :
                       k[".env.development.local"] # "vite" /\ k[".env.production.local"] # "vite"},
       nodeEnv \in NodeEnvValues,
       apiUrl \in {Undefined, "", "https://process.example.com"},
       pkg \in {NoPackageJson, PackageJson({"react"})} :
       /\ env = ProcessEnv(nodeEnv, apiUrl)
       /\ fsys = [EmptyFS EXCEPT !.dotenv = DotEnvFiles(kinds), !.pkg = pkg]

InitEnvAngular ==
    \E ng \in EnvAngular, kMain \in NgEnvKinds, kApp1 \in NgEnvKinds, kApp2 \in NgEnvKinds,
       nodeEnv \in NodeEnvValues :
       /\ env = ProcessEnv(nodeEnv, Undefined)
       /\ fsys = [EmptyFS EXCEPT
                    !.angular = ng,
                    !.ngenv = Assign(NgEnvFiles("main", Main.sourceRoot, kMain),
                                Assign(NgEnvFiles("app1", App1.sourceRoot, kApp1),
                                       NgEnvFiles("app2", App2.sourceRoot, kApp2))),
                    !.html = [p \in {<<"src", "index.html">>,
                                     <<"projects", "app1", "src", "index.html">>,
                                     <<"projects", "app2", "src", "index.html">>} |-> BasicHtml]]

\* Workspaces whose angular.json has no projects, or a null entry
InitEnvBrokenWorkspace ==
    \E ng \in {AngularJsonNoProjects,
                AngularJson(<<Project("broken", NullEntry, NoPath, NoPath, NoPath), App1>>),
                AngularJson(<<App1, Project("broken", NullEntry, NoPath, NoPath, NoPath)>>)},
       kApp1 \in {"absent", "urls"}, nodeEnv \in {Undefined, "production"} :
       /\ env = ProcessEnv(nodeEnv, Undefined)
       /\ fsys = [EmptyFS EXCEPT
                    !.angular = ng,
                    !.ngenv = NgEnvFiles("app1", App1.sourceRoot, kApp1)]

InitEnv ==
    /\ InitEnvReact \/ InitEnvAngular \/ InitEnvBrokenWorkspace
    /\ last = [op |-> "none"]

EnvTargets ==
    {NoPath, <<"src", "index.html">>, <<"projects", "app1", "src", "index.html">>,
     <<"projects", "app2", "src", "index.html">>, <<"dist", "app1", "index.html">>}

LoadReactEnvCall ==
    /\ last' = [op |-> "loadReactEnv", root |-> <<>>, target |-> NoPath,
                result |-> loadReactEnv(fsys, env, <<>>)]
    /\ UNCHANGED <<env, fsys>>

LoadEnvironmentVariablesCall ==
    \E root \in {<<>>, <<"projects", "app1">>}, target \in EnvTargets :
       /\ last' = [op |-> "loadEnvironmentVariables", root |-> root, target |-> target,
                   threw |-> loadEnvironmentVariablesThrows(fsys, env, root, target),
                   result |-> IF loadEnvironmentVariablesThrows(fsys, env, root, target)
                              THEN EmptyMap
                              ELSE loadEnvironmentVariables(fsys, env, root, target)]
       /\ UNCHANGED <<env, fsys>>

NextEnv == LoadReactEnvCall \/ LoadEnvironmentVariablesCall

SpecEnv == InitEnv /\ [][NextEnv]_vars

\* The value the .env file at path gives to key: that of its last
\* NAME=VALUE line for the key, surrounding quotes removed
C8_FileValue(path, key) ==
    IF path \notin DOMAIN fsys.dotenv THEN Undefined
    ELSE LET lines == fsys.dotenv[path]
             at    == {i \in 1..Len(lines) : lines[i].kind = "assign" /\ lines[i].key = key}
         IN  IF at = {} THEN Undefined
             ELSE StripQuotes(lines[CHOOSE i \in at : \A j \in at : j <= i].value)

\* The sources of the React / VITE path, from lowest to highest precedence
C8_Sources ==
    LET mode == IF Lookup(env, NODE_ENV) = "production" THEN "production" ELSE "development"
    IN  <<".env", ".env." \o mode, ".env.local", ".env." \o mode \o ".local", "process">>

C8_SourceValue(n, key) ==
    IF C8_Sources[n] = "process" THEN Lookup(env, key) ELSE C8_FileValue(<<C8_Sources[n]>>, key)

\* C8: the value loadReactEnv loads for a REACT_APP_ or VITE_ key is the one
\* given by the highest-precedence source that defines it, in the order
\* .env < .env.<mode> < .env.local < .env.<mode>.local < process environment;
\* a key that no source defines is not loaded.
C8_HighestPrecedenceWins ==
    last.op = "loadReactEnv" =>
       \A key \in {REACT_APP_API_URL, VITE_API_URL} :
          LET defining == {n \in 1..Len(C8_Sources) : C8_SourceValue(n, key) # Undefined}
          IN  IF defining = {} THEN key \notin DOMAIN last.result
              ELSE /\ key \in DOMAIN last.result
                   /\ last.result[key] =
                        C8_SourceValue(CHOOSE n \in defining : \A m \in defining : m <= n, key)

\* loadReactEnv has run in production mode where .env, .env.production and
\* .env.local all define REACT_APP_API_URL and nothing above .env.local does,
\* and it returned the .env.local value.
C8_Witness ==
    /\ last.op = "loadReactEnv"
    /\ Lookup(env, NODE_ENV) = "production"
    /\ C8_FileValue(<<".env">>, REACT_APP_API_URL) = "https://.env.example.com"
    /\ C8_FileValue(<<".env.production">>, REACT_APP_API_URL) = "https://.env.production.example.com"
    /\ C8_FileValue(<<".env.local">>, REACT_APP_API_URL) = "https://.env.local.example.com"
    /\ C8_FileValue(<<".env.production.local">>, REACT_APP_API_URL) = Undefined
    /\ REACT_APP_API_URL \notin DOMAIN env
    /\ Lookup(last.result, REACT_APP_API_URL) = "https://.env.local.example.com"

\* The declared applications whose source root contains the target of the
\* last call
C9_Owners ==
    {i \in 1..Len(fsys.angular.projects) :
        LET P == fsys.angular.projects[i]
        IN  /\ P.projectType = "application"
            /\ P.sourceRoot # NoPath
            /\ IsPrefix(P.sourceRoot, last.target)}

\* C9 as claimed: for a workspace declaring several projects,
\* loadEnvironmentVariables(root, target) with the target inside project P
\* returns, for every key P's own environment file defines, P's value,
\* whatever the declaration order and the roots of the other projects.
C9_TargetedProjectWins ==
    (/\ last.op = "loadEnvironmentVariables"
     /\ last.root = <<>>
     /\ ~last.threw
     /\ last.target # NoPath
     /\ fsys.angular.state = "ok"
     /\ Len(fsys.angular.projects) >= 2) =>
       \A i \in C9_Owners :
          LET P    == fsys.angular.projects[i]
              file == IF Lookup(env, NODE_ENV) = "production"
                      THEN "environment.prod.ts" ELSE "environment.ts"
              own  == parseAngularEnvFile(fsys, P.sourceRoot \o <<"environments", file>>)
          IN  \A key \in DOMAIN own : Lookup(last.result, key) = own[key]

\* ------------------------------------------------------------------------
\* CSP configurations (types/csp, csp-injector, utils/config-loader)
\*
\* A directive value is a string that may hold {{NAME}} placeholders.  A
\* configuration object lists its directives in property order; has names
\* the scalar properties it defines.

\* The name a key spells
KeyName(key) == IF Len(key) = 1 THEN key[1] ELSE key[1] \o key[2]

\* `{{${variable}}}`
Var(key) == "{{" \o KeyName(key) \o "}}"

NonceTemplate == "'nonce-{{nonce}}'"

Directive(name, values) == [name |-> name, values |-> values]

ConfigFields == {"useNonce", "nonceLength", "reportOnly"}

BASE_DIRECTIVES ==
    <<Directive("default-src", <<"'self'">>),
      Directive("style-src", <<"'self'", "'unsafe-inline'">>),
      Directive("img-src", <<"'self'", "data:", "blob:">>),
      Directive("font-src", <<"'self'", "data:">>),
      Directive("connect-src", <<"'self'">>),
      Directive("worker-src", <<"'self'", "blob:">>),
      Directive("manifest-src", <<"'self'">>)>>

DEFAULT_CONFIG ==
    [directives |-> Append(BASE_DIRECTIVES,
                           Directive("script-src", <<"'self'", "'unsafe-inline'">>)),
     has |-> ConfigFields, useNonce |-> FALSE, nonceLength |-> 16, reportOnly |-> FALSE]

PRODUCTION_CONFIG ==
    [directives |-> Append(BASE_DIRECTIVES, Directive("script-src", <<"'self'">>)),
     has |-> ConfigFields, useNonce |-> TRUE, nonceLength |-> 24, reportOnly |-> FALSE]

DirectiveNames(directives) == {directives[i].name : i \in 1..Len(directives)}

DirectiveValues(directives, name) ==
    directives[CHOOSE i \in 1..Len(directives) : directives[i].name = name].values

\* A spread that appends the lists of user to those of base
SpreadDirectivesAppend(base, user) ==
    [i \in 1..Len(base) |->
        IF base[i].name \in DirectiveNames(user)
        THEN Directive(base[i].name, base[i].values \o DirectiveValues(user, base[i].name))
        ELSE base[i]]
      \o SelectSeq(user, LAMBDA d : d.name \notin DirectiveNames(base))

\* { ...base, ...user } on directive maps: the properties of base keep
\* their place and take the value user gives them, the other properties of
\* user follow
SpreadDirectives(base, user) ==
    [i \in 1..Len(base) |->
        IF base[i].name \in DirectiveNames(user)
        THEN Directive(base[i].name, DirectiveValues(user, base[i].name))
        ELSE base[i]]
      \o SelectSeq(user, LAMBDA d : d.name \notin DirectiveNames(base))

\* mergeConfigWithDefaults(defaultConfig, config); CSPInjector.mergeConfigs
\* and the merge of loadConfigFromFile are the same expression
mergeConfigWithDefaults(defaultConfig, config) ==
    [directives  |-> SpreadDirectives(defaultConfig.directives, config.directives),
     has         |-> defaultConfig.has \cup config.has,
     useNonce    |-> IF "useNonce" \in config.has THEN config.useNonce
                     ELSE defaultConfig.useNonce,
     nonceLength |-> IF "nonceLength" \in config.has THEN config.nonceLength
                     ELSE defaultConfig.nonceLength,
     reportOnly  |-> IF "reportOnly" \in config.has THEN config.reportOnly
                     ELSE defaultConfig.reportOnly]

\* \w of a regular expression
WordChars ==
    {"a", "b", "c", "d", "e", "f", "g", "h", "i", "j", "k", "l", "m",
     "n", "o", "p", "q", "r", "s", "t", "u", "v", "w", "x", "y", "z",
     "A", "B", "C", "D", "E", "F", "G", "H", "I", "J", "K", "L", "M",
     "N", "O", "P", "Q", "R", "S", "T", "U", "V", "W", "X", "Y", "Z",
     "0", "1", "2", "3", "4", "5", "6", "7", "8", "9", "_"}

\* The length of the run of word characters of text that starts at i
RECURSIVE WordRun(_, _)
WordRun(text, i) ==
    IF i <= Len(text) /\ SubSeq(text, i, i) \in WordChars
    THEN 1 + WordRun(text, i + 1)
    ELSE 0

\* REGEX_PATTERNS.TEMPLATE_VARIABLE, /\{\{(\w+)\}\}/g, tried at index i of
\* text: the length of the name it captures, 0 when it does not match
TEMPLATE_VARIABLE(text, i) ==
    IF i + 4 <= Len(text) /\ SubSeq(text, i, i + 1) = "{{"
    THEN LET n == WordRun(text, i + 2)
         IN  IF n > 0 /\ i + n + 3 <= Len(text)
                      /\ SubSeq(text, i + n + 2, i + n + 3) = "}}"
             THEN n ELSE 0
    ELSE 0

\* The first index from i on where the pattern matches, 0 when there is none
RECURSIVE FirstMatch(_, _)
FirstMatch(text, i) ==
    IF i + 4 > Len(text) THEN 0
    ELSE IF TEMPLATE_VARIABLE(text, i) > 0 THEN i
    ELSE FirstMatch(text, i + 1)

\* What a property of Object.prototype gives when a replacement callback
\* returns it: every object literal inherits these properties
ObjectPrototype ==
    [name \in {"constructor", "toString", "valueOf", "hasOwnProperty"} |->
        "function " \o (IF name = "constructor" THEN "Object" ELSE name)
                    \o "() { [native code] }"]

\* envVars[varName]: the own property of that name, else the inherited
\* one, else undefined
GetProperty(envVars, varName) ==
    IF \E key \in DOMAIN envVars : KeyName(key) = varName
    THEN envVars[CHOOSE key \in DOMAIN envVars : KeyName(key) = varName]
    ELSE IF varName \in DOMAIN ObjectPrototype THEN ObjectPrototype[varName]
    ELSE Undefined

\* resolveTemplateVariables of utils/config-loader: one pass of
\* String.replace over template, left to right; a replacement is not
\* scanned again
RECURSIVE resolveTemplateVariables(_, _)
resolveTemplateVariables(template, envVars) ==
    LET i == FirstMatch(template, 1)
    IN  IF i = 0 THEN template
        ELSE LET n           == TEMPLATE_VARIABLE(template, i)
                 match       == SubSeq(template, i, i + n + 3)
                 replacement == GetProperty(envVars, SubSeq(template, i + 2, i + n + 1))
             IN  SubSeq(template, 1, i - 1)
                   \o (IF replacement # Undefined THEN replacement ELSE match)
                   \o resolveTemplateVariables(SubSeq(template, i + n + 4, Len(template)),
                                               envVars)

\* resolveTemplateVariables of utils/environment, the exported utility: a
\* template without a match is returned as it is; a name the map does not
\* have is looked up again with the Angular prefix
RECURSIVE environment_resolveTemplateVariables(_, _)
environment_resolveTemplateVariables(template, envVars) ==
    LET i == FirstMatch(template, 1)
    IN  IF i = 0 THEN template
        ELSE LET n       == TEMPLATE_VARIABLE(template, i)
                 match   == SubSeq(template, i, i + n + 3)
                 varName == SubSeq(template, i + 2, i + n + 1)
                 value   == IF GetProperty(envVars, varName) # Undefined
                            THEN GetProperty(envVars, varName)
                            ELSE GetProperty(envVars, ENV_PREFIXES.ANGULAR \o varName)
             IN  SubSeq(template, 1, i - 1)
                   \o (IF value # Undefined THEN value ELSE match)
                   \o environment_resolveTemplateVariables(
                         SubSeq(template, i + n + 4, Len(template)), envVars)

ResolveDirectives(directives, envVars) ==
    [i \in 1..Len(directives) |->
        Directive(directives[i].name,
                  [j \in 1..Len(directives[i].values) |->
                      resolveTemplateVariables(directives[i].values[j], envVars)])]

\* The environment values of the model that do not fit in a JSON string
\* as they are: those holding a double quote
BreaksJson(value) == \E i \in 1..Len(value) : SubSeq(value, i, i) = "\""

getDefaultConfigForEnvironment(envVars) ==
    IF Lookup(envVars, NODE_ENV) = "production" THEN PRODUCTION_CONFIG ELSE DEFAULT_CONFIG

\* readConfigFile(configPath): the specified file if it can be read, else
\* csp.config.json of the working directory; NoPath when neither can
readConfigFile(f, configPath) ==
    IF configPath # NoPath /\ configPath \in DOMAIN f.config THEN configPath
    ELSE IF <<"csp.config.json">> \in DOMAIN f.config THEN <<"csp.config.json">>
    ELSE NoPath

\* The property names safeJsonParse looks for
PollutionKeys == {"__proto__", "constructor", "prototype"}

\* safeJsonParse on text that is JSON, parsed being what JSON.parse gives:
\* constructor and prototype are deleted from the top-level object; its
\* __proto__ property is redefined with the value null and stays a property
\* of the object; the objects below the top level are left as parsed
safeJsonParse(parsed) == [parsed EXCEPT !.has = @ \ {"constructor", "prototype"}]

\* loadConfigFromFile that merges whatever the file gives, parsed or not
loadConfigFromFileUnparsed(f, envVars, configPath) ==
    LET filePath == readConfigFile(f, configPath)
    IN  IF filePath = NoPath THEN [found |-> FALSE, config |-> DEFAULT_CONFIG]
        ELSE [found |-> TRUE,
              config |-> mergeConfigWithDefaults(
                            getDefaultConfigForEnvironment(envVars),
                            [f.config[filePath].cfg EXCEPT
                               !.directives = ResolveDirectives(@, envVars)])]

\* loadConfigFromFile: [found, config]
loadConfigFromFile(f, envVars, configPath) ==
    LET filePath == readConfigFile(f, configPath)
    IN  IF filePath = NoPath THEN [found |-> FALSE, config |-> DEFAULT_CONFIG]
        ELSE LET file == f.config[filePath]
                 resolved == ResolveDirectives(file.cfg.directives, envVars)
             IN  IF \/ ~file.json
                    \/ \E i \in 1..Len(resolved) : \E j \in 1..Len(resolved[i].values) :
                          BreaksJson(resolved[i].values[j])
                 THEN [found |-> FALSE, config |-> DEFAULT_CONFIG]
                 ELSE [found |-> TRUE,
                       config |-> mergeConfigWithDefaults(
                                     getDefaultConfigForEnvironment(envVars),
                                     safeJsonParse([file.cfg EXCEPT !.directives = resolved]))]

\* The order in which the model lists environment keys
KeyOrder ==
    <<<<"NODE_ENV">>, <<"REACT_APP_", "API_URL">>, <<"VITE_", "API_URL">>,
      <<"VITE_", "QUOTES">>, <<"NG_", "API_URL">>, <<"NG_", "API_KEY">>>>

getFrameworkEnvironmentVariables(envVars) ==
    SelectSeq(KeyOrder, LAMBDA key :
        /\ key \in DOMAIN envVars
        /\ \/ startsWith(key, ENV_PREFIXES.REACT)
           \/ startsWith(key, ENV_PREFIXES.VITE)
           \/ startsWith(key, ENV_PREFIXES.ANGULAR))

\* An enhanceConfigWithVariables that adds the placeholders to connect-src
\* only, and before the entries of the base
enhanceConfigWithVariablesConnectOnly(baseConfig, variables) ==
    LET placeholders == [i \in 1..Len(variables) |-> Var(variables[i])]
    IN  [baseConfig EXCEPT !.directives =
            [i \in 1..Len(@) |->
                IF @[i].name = "connect-src"
                THEN Directive(@[i].name, placeholders \o @[i].values)
                ELSE @[i]]]

enhanceConfigWithVariables(baseConfig, variables) ==
    LET placeholders == [i \in 1..Len(variables) |-> Var(variables[i])]
    IN  [baseConfig EXCEPT !.directives =
            [i \in 1..Len(@) |->
                IF @[i].name \in {"connect-src", "script-src", "img-src"}
                THEN Directive(@[i].name, @[i].values \o placeholders)
                ELSE @[i]]]

\* createEnhancedDefaultConfig: [found, config]
createEnhancedDefaultConfig(envVars) ==
    LET frameworkVars == getFrameworkEnvironmentVariables(envVars)
    IN  IF frameworkVars = <<>> THEN [found |-> FALSE, config |-> DEFAULT_CONFIG]
        ELSE [found |-> TRUE,
              config |-> enhanceConfigWithVariables(getDefaultConfigForEnvironment(envVars),
                                                    frameworkVars)]

\* loadConfig(baseConfigs, configPath, envVars)
loadConfig(f, configPath, envVars) ==
    LET configFromFile == loadConfigFromFile(f, envVars, configPath)
        enhancedConfig == createEnhancedDefaultConfig(envVars)
    IN  IF configFromFile.found THEN configFromFile.config
        ELSE IF enhancedConfig.found THEN enhancedConfig.config
        ELSE getDefaultConfigForEnvironment(envVars)

\* ------------------------------------------------------------------------
\* CSPInjector (csp-injector)

RECURSIVE JoinText(_, _)
JoinText(texts, separator) ==
    IF texts = <<>> THEN ""
    ELSE IF Len(texts) = 1 THEN texts[1]
    ELSE texts[1] \o separator \o JoinText(Tail(texts), separator)

\* processCSPValue(value, nonce); nonce is Undefined when there is none
processCSPValue(item, envVars, nonce) ==
    IF nonce # Undefined /\ item = NonceTemplate
    THEN "'nonce-" \o nonce \o "'"
    ELSE resolveTemplateVariables(item, envVars)

\* buildCSP(nonce) of an injector holding config and envVars
buildCSP(config, envVars, nonce) ==
    JoinText(
      [i \in 1..Len(config.directives) |->
          LET processedValues ==
                SelectSeq([j \in 1..Len(config.directives[i].values) |->
                             processCSPValue(config.directives[i].values[j], envVars, nonce)],
                          LAMBDA value : trim(value) # "")
          IN  config.directives[i].name \o " " \o JoinText(processedValues, " ")],
      "; ")

\* generateNonce(): the base64 text of nonceLength random bytes; random
\* names the bytes drawn ("low": 00 01 02 ..., "high": ab cd ef 12 ...)
generateNonce(config, random) ==
    IF config.nonceLength = 16
    THEN (IF random = "low" THEN "AAECAwQFBgcICQoLDA0ODw==" ELSE "q83vEjRWeJCrze8SNFZ4kA==")
    ELSE IF config.nonceLength = 24
    THEN (IF random = "low" THEN "AAECAwQFBgcICQoLDA0ODxAREhMUFRYX"
          ELSE "q83vEjRWeJCrze8SNFZ4kKvN7xI0VniQ")
    ELSE (IF random = "low" THEN "AAECAw==" ELSE "q83vEg==")

\* new CSPInjector(config, envVars).injectCSP(htmlPath)
CSPInjector_injectCSP(f, config, envVars, htmlPath, random) ==
    LET merged == mergeConfigWithDefaults(DEFAULT_CONFIG, config)
        nonce  == IF merged.useNonce /\ htmlPath \in DOMAIN f.html
                  THEN generateNonce(merged, random) ELSE Undefined
        r      == injectCSP(f, htmlPath, merged.reportOnly, buildCSP(merged, envVars, nonce))
    IN  [threw |-> r.threw, error |-> IF r.threw THEN "Failed to inject CSP" ELSE "",
         fsys |-> r.fsys, htmlPath |-> htmlPath,
         replacedTags |-> r.replacedTags, cspString |-> r.cspString,
         nonce |-> nonce, envVars |-> envVars, reportOnly |-> merged.reportOnly]

\* CSPInjector.loadEnvironmentVariables(projectRoot): the process
\* environment overlaid with what the framework loader returns for
\* projectRoot, no HTML path given
CSPInjector_loadEnvironmentVariables(f, e, projectRoot) ==
    LET frameworkEnvVars == loadEnvironmentVariables(f, e, projectRoot, NoPath)
    IN  Assign(e, [k \in {x \in DOMAIN frameworkEnvVars :
                            frameworkEnvVars[x] \notin {"", "undefined", "null"}} |->
                     frameworkEnvVars[k]])

\* detectAngularWorkspaceRoot(projectRoot, htmlPath), for the directory
\* names of the model: the pattern is <prefix>/projects/<name>/src/index.html
detectAngularWorkspaceRoot(f, projectRoot, htmlPath) ==
    LET n == Len(htmlPath)
    IN  IF /\ n >= 4
           /\ htmlPath[n - 3] = "projects"
           /\ htmlPath[n - 1] = "src"
           /\ htmlPath[n] = "index.html"
        THEN LET workspaceProjectRoot == SubSeq(htmlPath, 1, n - 2)
             IN  IF existsSync(f, workspaceProjectRoot \o
                                    <<"src", "environments", "environment.ts">>)
                 THEN workspaceProjectRoot
                 ELSE projectRoot
        ELSE projectRoot

\* The options of inject: htmlPath and configPath are NoPath when omitted,
\* devMode is "true", "false" or "omitted", hasConfig and hasEnvVars tell
\* whether config and envVars are given.

\* resolveProjectPaths that takes an explicit htmlPath without looking
\* whether it exists
resolveProjectPathsUnchecked(f, options) ==
    LET fromConfig == IF options.configPath # NoPath
                      THEN SubSeq(options.configPath, 1, Len(options.configPath) - 1)
                      ELSE <<>>
        detected   == detectHTML(f, options.devMode = "true")
        htmlPath   == IF options.htmlPath # NoPath THEN options.htmlPath ELSE detected.path
    IN  IF options.htmlPath = NoPath /\ detected.kind # "found"
        THEN [threw |-> TRUE, error |-> "HTML file not found",
              projectRoot |-> fromConfig, htmlPath |-> NoPath]
        ELSE [threw |-> FALSE, error |-> "",
              projectRoot |-> IF options.configPath = NoPath
                              THEN detectAngularWorkspaceRoot(f, fromConfig, htmlPath)
                              ELSE fromConfig,
              htmlPath |-> htmlPath]

\* resolveProjectPaths(options): [threw, error, projectRoot, htmlPath]; a
\* candidate that detectHTML cannot read makes it throw the error of fs
resolveProjectPaths(f, options) ==
    LET fromConfig == IF options.configPath # NoPath
                      THEN SubSeq(options.configPath, 1, Len(options.configPath) - 1)
                      ELSE <<>>
        detected   == detectHTML(f, options.devMode = "true")
        failed     == [threw |-> TRUE, error |-> "HTML file not found",
                       projectRoot |-> fromConfig, htmlPath |-> NoPath]
    IN  IF options.htmlPath # NoPath /\ ~existsSync(f, options.htmlPath) THEN failed
        ELSE IF options.htmlPath = NoPath /\ detected.kind = "throws"
        THEN [failed EXCEPT !.error = "EISDIR"]
        ELSE IF options.htmlPath = NoPath /\ detected.kind = "null" THEN failed
        ELSE LET htmlPath == IF options.htmlPath # NoPath THEN options.htmlPath
                             ELSE detected.path
             IN  [threw |-> FALSE, error |-> "",
                  projectRoot |-> IF options.configPath = NoPath
                                  THEN detectAngularWorkspaceRoot(f, fromConfig, htmlPath)
                                  ELSE fromConfig,
                  htmlPath |-> htmlPath]

\* executeInjectionWithEnvironment(options, projectRoot, htmlPath): the
\* result of injectCSP, or the TypeError of the environment loader, and the
\* process environment after the finally block
executeInjectionWithEnvironment(f, e, options, projectRoot, htmlPath, random) ==
    LET originalNodeEnv == getNodeEnv(e)
        setup   == setupEnvironmentForMode(e, options.devMode)
        envVars == IF options.hasEnvVars THEN options.envVars
                   ELSE CSPInjector_loadEnvironmentVariables(f, setup.env, projectRoot)
        config  == IF options.hasConfig
                   THEN mergeConfigWithDefaults(DEFAULT_CONFIG, options.config)
                   ELSE loadConfig(f, options.configPath, envVars)
        r       == IF /\ ~options.hasEnvVars
                      /\ loadEnvironmentVariablesThrows(f, setup.env, projectRoot, NoPath)
                   THEN [threw |-> TRUE, error |-> "TypeError", fsys |-> f,
                         htmlPath |-> htmlPath, replacedTags |-> 0, cspString |-> "",
                         nonce |-> Undefined, envVars |-> EmptyMap, reportOnly |-> FALSE]
                   ELSE CSPInjector_injectCSP(f, config, envVars, htmlPath, random)
    IN  r @@
        [env |-> restoreEnvironment(setup.env, setup.shouldRestore, originalNodeEnv),
         projectRoot |-> projectRoot]

\* CSPInjector.inject(options)
inject(f, e, options, random) ==
    LET paths == resolveProjectPaths(f, options)
    IN  IF paths.threw
        THEN [threw |-> TRUE, error |-> paths.error, fsys |-> f, htmlPath |-> NoPath,
              replacedTags |-> 0,
              cspString |-> "", nonce |-> Undefined, envVars |-> EmptyMap,
              reportOnly |-> FALSE, env |-> e, projectRoot |-> paths.projectRoot]
        ELSE executeInjectionWithEnvironment(f, e, options, paths.projectRoot,
                                             paths.htmlPath, random)

\* ------------------------------------------------------------------------
\* Specification Spec: CSPInjector.inject, called repeatedly with every
\* options bag, in React projects and in Angular workspaces

EmptyPartialConfig ==
    [directives |-> <<>>, has |-> {}, useNonce |-> FALSE, nonceLength |-> 0,
     reportOnly |-> FALSE]

\* A variable of the process environment that no framework prefix covers
API_TOKEN == <<"API_TOKEN">>

\* A csp.config.json that turns nonces on and names the API origins
ConfigFileWithTemplates ==
    [json |-> TRUE,
     cfg  |-> [EmptyPartialConfig EXCEPT
                 !.directives = <<Directive("connect-src",
                                            <<"'self'", Var(NG_API_URL), Var(REACT_APP_API_URL),
                                              Var(API_TOKEN)>>),
                                  Directive("script-src", <<"'self'", NonceTemplate>>)>>,
                 !.has = {"useNonce"},
                 !.useNonce = TRUE]]

ConfigFileNotJson == [json |-> FALSE, cfg |-> EmptyPartialConfig]

ConfigFiles(kind) ==
    IF kind = "absent" THEN EmptyMap
    ELSE [p \in {<<"csp.config.json">>} |->
            IF kind = "ok" THEN ConfigFileWithTemplates ELSE ConfigFileNotJson]

\* options.config as a caller gives it
OptionConfig ==
    [EmptyPartialConfig EXCEPT
       !.directives = <<Directive("frame-ancestors", <<"'none'">>)>>,
       !.has = {"reportOnly"},
       !.reportOnly = TRUE]

\* options.envVars as a caller gives it
OptionEnvVars == [k \in {REACT_APP_API_URL} |-> "https://explicit.example.com"]

InitReactProject ==
    \E kinds \in {k \in [DotEnvNames -> {"absent", "react"}] :
                    /\ k[".env"] = "absent"
                    /\ (k[".env.production"] = "react" => k[".env.development"] = "react")
                    /\ k[".env.local"] = "absent"
                    /\ k[".env.development.local"] = "absent"
                    /\ k[".env.production.local"] = "absent"},
       cfg \in {"absent", "ok", "invalid"} :
       fsys = [EmptyFS EXCEPT
                 !.dotenv = DotEnvFiles(kinds),
                 !.pkg    = PackageJson({"react"}),
                 !.config = ConfigFiles(cfg),
                 !.html   = [p \in {<<"public", "index.html">>} |-> BasicHtml]]

InitAngularWorkspace ==
    \E projects \in {<<App1, App2>>, <<App2, App1>>, <<Main, App1>>},
       kApp1 \in {"absent", "urls"} :
       fsys = [EmptyFS EXCEPT
                 !.angular = AngularJson(projects),
                 !.ngenv   = Assign(NgEnvFiles("main", Main.sourceRoot, "urls"),
                               Assign(NgEnvFiles("app1", App1.sourceRoot, kApp1),
                                      NgEnvFiles("app2", App2.sourceRoot, "urls"))),
                 !.config  = ConfigFiles("ok"),
                 !.html    = [p \in {<<"projects", "app1", "src", "index.html">>} |-> BasicHtml]]

Init ==
    /\ \E nodeEnv \in NodeEnvValues :
          env = Assign(ProcessEnv(nodeEnv, Undefined), [k \in {API_TOKEN} |-> "t0ken"])
    /\ InitReactProject \/ InitAngularWorkspace
    /\ last = [op |-> "none"]

InjectHtmlPaths ==
    {NoPath, <<"public", "index.html">>, <<"projects", "app1", "src", "index.html">>,
     <<"public">>}

Calls == IF last.op = "inject" THEN last.calls ELSE 0

Inject ==
    /\ Calls < MaxInjectCalls
    /\ \E devMode \in {"true", "false", "omitted"}, htmlPath \in InjectHtmlPaths,
          configPath \in {NoPath, <<"csp.config.json">>},
          hasEnvVars \in BOOLEAN, hasConfig \in BOOLEAN :
       \E random \in IF hasConfig THEN {"low"} ELSE {"low", "high"} :
          LET options == [devMode |-> devMode, htmlPath |-> htmlPath,
                          configPath |-> configPath,
                          hasEnvVars |-> hasEnvVars,
                          envVars |-> IF hasEnvVars THEN OptionEnvVars ELSE EmptyMap,
                          hasConfig |-> hasConfig,
                          config |-> IF hasConfig THEN OptionConfig ELSE EmptyPartialConfig]
          IN  \E r \in {inject(fsys, env, options, random)} :
                 /\ env' = r.env
                 /\ fsys' = r.fsys
                 /\ last' = [op |-> "inject", calls |-> Calls + 1, devMode |-> devMode,
                             hasEnvVars |-> hasEnvVars,
                             htmlPathOption |-> htmlPath,
                             nodeEnvBefore |-> getNodeEnv(env), threw |-> r.threw,
                             error |-> r.error,
                             htmlPath |-> r.htmlPath, projectRoot |-> r.projectRoot,
                             envVars |-> r.envVars, cspString |-> r.cspString,
                             nonce |-> r.nonce, replacedTags |-> r.replacedTags,
                             reportOnly |-> r.reportOnly]

Next == Inject

Spec == Init /\ [][Next]_vars

C2_ProductionValues ==
    {"https://.env.production.example.com", "https://.env.production.local.example.com",
     "https://main.com", "https://app1.com", "https://app2.com"}

C2_DevelopmentValues ==
    {"https://.env.development.example.com", "https://.env.development.local.example.com",
     "https://dev.main.com", "https://dev.app1.com", "https://dev.app2.com"}

\* C2: inject with devMode = true and no explicit envVars loads the
\* development files and never the production ones, for every prior NODE_ENV:
\* no loaded variable has a value of a production file, REACT_APP_API_URL is
\* the one of .env.development when that file exists, and NG_API_URL is one
\* of an environment.ts in an Angular workspace.
C2_DevModeLoadsDevelopmentFiles ==
    (last.op = "inject" /\ last.devMode = "true" /\ ~last.hasEnvVars /\ ~last.threw) =>
       /\ \A key \in DOMAIN last.envVars : last.envVars[key] \notin C2_ProductionValues
       /\ <<".env.development">> \in DOMAIN fsys.dotenv =>
             Lookup(last.envVars, REACT_APP_API_URL) = "https://.env.development.example.com"
       /\ fsys.angular.state = "ok" =>
             Lookup(last.envVars, NG_API_URL) \in C2_DevelopmentValues

\* inject with devMode = true has returned where NODE_ENV is 'production'
\* and both .env.development and .env.production exist: it loaded the
\* .env.development value.
C2_Witness ==
    /\ last.op = "inject"
    /\ last.devMode = "true"
    /\ ~last.hasEnvVars
    /\ ~last.threw
    /\ Lookup(env, NODE_ENV) = "production"
    /\ <<".env.development">> \in DOMAIN fsys.dotenv
    /\ <<".env.production">> \in DOMAIN fsys.dotenv
    /\ Lookup(last.envVars, REACT_APP_API_URL) = "https://.env.development.example.com"

\* C3 as claimed: inject with devMode = false and no explicit envVars loads
\* the production files and never the development ones, for every prior
\* NODE_ENV (unset, 'development', 'production' or any other string such as
\* 'test').
C3_ProdModeLoadsProductionFiles ==
    (last.op = "inject" /\ last.devMode = "false" /\ ~last.hasEnvVars /\ ~last.threw) =>
       /\ \A key \in DOMAIN last.envVars : last.envVars[key] \notin C2_DevelopmentValues
       /\ <<".env.production">> \in DOMAIN fsys.dotenv =>
             Lookup(last.envVars, REACT_APP_API_URL) = "https://.env.production.example.com"
       /\ fsys.angular.state = "ok" =>
             Lookup(last.envVars, NG_API_URL) \in C2_ProductionValues

\* The declared applications whose source root contains the HTML file of the
\* last inject call, and that have environment files declaring apiUrl
C10_Owners ==
    {i \in 1..Len(fsys.angular.projects) :
        LET P == fsys.angular.projects[i]
        IN  /\ P.projectType = "application"
            /\ P.sourceRoot # NoPath
            /\ IsPrefix(P.sourceRoot, last.htmlPath)
            /\ (P.sourceRoot \o <<"environments", "environment.ts">>) \in DOMAIN fsys.ngenv}

\* C10 as claimed: when inject loads the environment variables itself, for
\* an HTML file belonging to a project declared in angular.json the
\* variables used are those of that project's environment file and never
\* those of another declared project.
C10_InjectUsesOwnProject ==
    (last.op = "inject" /\ ~last.hasEnvVars /\ ~last.threw /\ fsys.angular.state = "ok") =>
       \A i \in C10_Owners :
          Lookup(last.envVars, NG_API_URL) \in
             {"https://" \o fsys.angular.projects[i].name \o ".com",
              "https://dev." \o fsys.angular.projects[i].name \o ".com"}

\* ------------------------------------------------------------------------
\* Specification SpecTemplate: resolveTemplateVariables of utils/config-loader
\* applied to a template and a variable map, and again to its own result

MaxTemplateTokens == 2

\* The pieces templates are made of: placeholders, texts that are not
\* placeholders ({{}} has no name, a-b is not a word), plain texts
TemplateTokens ==
    {"{{A}}", "{{B}}", "{{constructor}}", "{{a-b}}", "{{}}", "'self'", " "}

\* The variable maps: object literals with some of the keys A and B, and
\* with or without the key NG_A
TemplateMaps ==
    {Assign(m, ng) :
       m \in UNION {[S -> {"x", "{{B}}", "https://api.example.com"}] :
                      S \in SUBSET {<<"A">>, <<"B">>}},
       ng \in {EmptyMap, [k \in {<<ENV_PREFIXES.ANGULAR, "A">>} |-> "https://ng.example.com"]}}

InitTemplate ==
    /\ env = EmptyMap
    /\ fsys = EmptyFS
    /\ \E tokens \in SeqsUpTo(TemplateTokens, MaxTemplateTokens), envVars \in TemplateMaps :
          last = [op |-> "none", tokens |-> tokens, envVars |-> envVars]

ResolveTemplateVariablesCall ==
    /\ last.op = "none"
    /\ \E result \in {resolveTemplateVariables(JoinText(last.tokens, ""), last.envVars)} :
          last' = [op |-> "resolveTemplateVariables", tokens |-> last.tokens,
                   envVars |-> last.envVars, result |-> result,
                   again |-> resolveTemplateVariables(result, last.envVars)]
    /\ UNCHANGED <<env, fsys>>

EnvironmentResolveTemplateVariablesCall ==
    /\ last.op = "none"
    /\ last' = [op |-> "environment.resolveTemplateVariables", tokens |-> last.tokens,
                envVars |-> last.envVars,
                result |-> environment_resolveTemplateVariables(JoinText(last.tokens, ""),
                                                                last.envVars)]
    /\ UNCHANGED <<env, fsys>>

NextTemplate == ResolveTemplateVariablesCall \/ EnvironmentResolveTemplateVariablesCall

SpecTemplate == InitTemplate /\ [][NextTemplate]_vars

\* The name each placeholder token of the templates holds
C11_Names ==
    [token \in {"{{A}}", "{{B}}", "{{constructor}}"} |->
        IF token = "{{A}}" THEN <<"A">>
        ELSE IF token = "{{B}}" THEN <<"B">> ELSE <<"constructor">>]

\* The template with each {{NAME}} whose NAME is a key of envVars replaced
\* by envVars[NAME], every other piece as it is
C11_Expected(tokens, envVars) ==
    JoinText([i \in 1..Len(tokens) |->
                 IF tokens[i] \in DOMAIN C11_Names /\ C11_Names[tokens[i]] \in DOMAIN envVars
                 THEN envVars[C11_Names[tokens[i]]]
                 ELSE tokens[i]],
             "")

\* C11: the template resolver replaces each {{NAME}} whose NAME is a key
\* of the variable map V by V[NAME] and leaves every {{NAME}} whose NAME is
\* not a key of V unchanged.
C11_ResolvesKeysOnly ==
    last.op = "resolveTemplateVariables" =>
       last.result = C11_Expected(last.tokens, last.envVars)

\* C12: template resolution is idempotent, resolve(resolve(T, V), V) is
\* resolve(T, V), for every template T and map V, the maps whose values
\* themselves contain {{NAME}} tokens included.
C12_Idempotent ==
    last.op = "resolveTemplateVariables" => last.again = last.result

\* text holds part
Contains(text, part) ==
    \E i \in 1..(Len(text) + 1) :
       /\ i + Len(part) - 1 <= Len(text)
       /\ SubSeq(text, i, i + Len(part) - 1) = part

\* C13: whenever the configuration in force has useNonce true (a nonce is
\* generated and reported), the CSP string emitted by injectCSP contains
\* 'nonce-<value>' for that nonce, and no literal {{nonce}}.
C13_NonceInCsp ==
    (last.op = "inject" /\ ~last.threw /\ last.nonce # Undefined) =>
       /\ Contains(last.cspString, "'nonce-" \o last.nonce \o "'")
       /\ ~Contains(last.cspString, "{{nonce}}")

\* ------------------------------------------------------------------------
\* Specification SpecConfig: loadConfig of utils/config-loader called with
\* every configPath and variable map, csp.config.json and config/csp.json
\* being absent, valid or not valid JSON

\* A config file that sets two directives
ConfigFileCustom ==
    [json |-> TRUE,
     cfg  |-> [EmptyPartialConfig EXCEPT
                 !.directives = <<Directive("default-src", <<"'self'">>),
                                  Directive("script-src", <<"'self'", "'unsafe-eval'">>)>>]]

CustomConfigPath == <<"config", "csp.json">>

\* A config file whose top-level object and whose directives object both
\* have properties named __proto__, constructor and prototype
ConfigFilePolluted ==
    [json |-> TRUE,
     cfg  |-> [EmptyPartialConfig EXCEPT
                 !.directives = <<Directive("script-src", <<"'self'">>),
                                  Directive("__proto__", <<"https://a.example.com">>),
                                  Directive("constructor", <<"https://b.example.com">>),
                                  Directive("prototype", <<"https://c.example.com">>)>>,
                 !.has = {"reportOnly"} \cup PollutionKeys,
                 !.reportOnly = TRUE]]

\* The variable maps given to loadConfig
ConfigEnvVars ==
    {Assign(a, b) :
       a \in {EmptyMap} \cup {[k \in {NODE_ENV} |-> v] : v \in {"production", "development"}},
       b \in {EmptyMap, [k \in {REACT_APP_API_URL, VITE_API_URL} |-> "https://api.example.com"]}
               \cup {[k \in {REACT_APP_API_URL} |-> v] :
                        v \in {"https://api.example.com", "\"https://quoted.example.com\""}}}

InitConfig ==
    /\ \E nodeEnv \in {Undefined, "development", "production"} :
          env = ProcessEnv(nodeEnv, Undefined)
    /\ \E default \in {"absent", "ok", "invalid"},
          custom \in {"absent", "ok", "invalid", "polluted"} :
          fsys = [EmptyFS EXCEPT
                    !.config = Assign(ConfigFiles(default),
                                      IF custom = "absent" THEN EmptyMap
                                      ELSE [p \in {CustomConfigPath} |->
                                              IF custom = "ok" THEN ConfigFileCustom
                                              ELSE IF custom = "polluted" THEN ConfigFilePolluted
                                              ELSE ConfigFileNotJson])]
    /\ last = [op |-> "none"]

LoadConfigCall ==
    /\ \E configPath \in {NoPath, <<"csp.config.json">>, CustomConfigPath},
          envVars \in ConfigEnvVars :
          last' = [op |-> "loadConfig", configPath |-> configPath, envVars |-> envVars,
                   config |-> loadConfig(fsys, configPath, envVars)]
    /\ UNCHANGED <<env, fsys>>

NextConfig == LoadConfigCall

SpecConfig == InitConfig /\ [][NextConfig]_vars

\* The configuration the three steps give when the file at filePath is the
\* one to use (NoPath: no file)
C14_Steps(filePath, envVars) ==
    LET base == getDefaultConfigForEnvironment(envVars)
    IN  IF filePath # NoPath
        THEN mergeConfigWithDefaults(base,
                safeJsonParse([fsys.config[filePath].cfg EXCEPT
                                 !.directives = ResolveDirectives(@, envVars)]))
        ELSE IF getFrameworkEnvironmentVariables(envVars) # <<>>
        THEN enhanceConfigWithVariables(base, getFrameworkEnvironmentVariables(envVars))
        ELSE base

\* A file that can be read and parses once its placeholders are resolved
C14_Usable(filePath, envVars) ==
    /\ filePath \in DOMAIN fsys.config
    /\ fsys.config[filePath].json
    /\ \A i \in 1..Len(fsys.config[filePath].cfg.directives) :
          \A j \in 1..Len(fsys.config[filePath].cfg.directives[i].values) :
             ~BreaksJson(resolveTemplateVariables(
                            fsys.config[filePath].cfg.directives[i].values[j], envVars))

\* C14: loadConfig returns the first applicable of (1) the configuration
\* of a config file, which is the given configPath if readable or, only when
\* no configPath is given, csp.config.json of the working directory,
\* (2) the enhanced defaults when the variables hold a framework-prefixed
\* name, (3) the plain built-in default; with a file, no placeholder is added.
C14_FirstApplicable ==
    last.op = "loadConfig" =>
       LET filePath == IF last.configPath # NoPath THEN last.configPath
                       ELSE <<"csp.config.json">>
       IN  last.config =
             C14_Steps(IF C14_Usable(filePath, last.envVars) THEN filePath ELSE NoPath,
                       last.envVars)

\* The file loadConfig reads is not valid JSON
C15_InvalidFile ==
    /\ last.op = "loadConfig"
    /\ readConfigFile(fsys, last.configPath) # NoPath
    /\ ~fsys.config[readConfigFile(fsys, last.configPath)].json

C16_IsProductionBase(config) == config.nonceLength = PRODUCTION_CONFIG.nonceLength

\* C16: the built-in base (development or production) is selected by the
\* ambient production flag of the process only: under the same ambient
\* NODE_ENV, two loadConfig calls whose argument maps differ in their
\* NODE_ENV entry select the same base.
C16_BaseFromAmbientFlag ==
    last.op = "loadConfig" =>
       \A other \in ConfigEnvVars :
          (\A key \in (DOMAIN other \cup DOMAIN last.envVars) \ {NODE_ENV} :
              Lookup(other, key) = Lookup(last.envVars, key))
          => (C16_IsProductionBase(loadConfig(fsys, last.configPath, other))
                <=> C16_IsProductionBase(last.config))

\* C17: inject throws an 'HTML file not found' error when the explicit
\* htmlPath does not exist and when, without htmlPath, auto-detection
\* finds nothing; in that case no file is written or modified and NODE_ENV
\* is left unchanged.
C17_NotFoundThrows ==
    [][last'.op = "inject" =>
         /\ (IF last'.htmlPathOption # NoPath
             THEN ~existsSync(fsys, last'.htmlPathOption)
             ELSE detectHTML(fsys, last'.devMode = "true").kind = "null")
            => (last'.threw /\ last'.error = "HTML file not found")
         /\ last'.error = "HTML file not found" => (fsys' = fsys /\ env' = env)]_vars

C17_Witness ==
    /\ last.op = "inject"
    /\ last.threw
    /\ last.error = "HTML file not found"
    /\ last.htmlPathOption = NoPath
    /\ last.devMode = "false"
    /\ last.nodeEnvBefore = "development"
    /\ getNodeEnv(env) = "development"
    /\ DOMAIN fsys.html = {<<"projects", "app1", "src", "index.html">>}
    /\ fsys.html[<<"projects", "app1", "src", "index.html">>] = BasicHtml

\* C18: loadEnvironmentVariables never throws, whatever the content of the
\* .env files, of the Angular environment files and of angular.json, an
\* angular.json without projects or with an entry that is not an object
\* included.
C18_LoaderNeverThrows ==
    last.op = "loadEnvironmentVariables" => ~last.threw

\* What is left of an empty or blank quoted value: white space between at
\* most one quote on each side
C19_QuoteArtifacts ==
    {a \o w \o b : a \in {"", "'", "\""}, w \in {"", " ", "\t", "  "}, b \in {"", "'", "\""}}

\* C19: every entry of the map the environment loader returns, on every
\* path (Angular, React / VITE, mixed), has a value that is a non-empty,
\* non-blank string other than 'undefined' and 'null' and is not a quote
\* artifact (white space between at most one quote on each side); a key
\* whose merged value is invalid is absent from the result.
C19_ValuesValid ==
    (last.op = "loadEnvironmentVariables" /\ ~last.threw) =>
       \A key \in DOMAIN last.result :
          /\ last.result[key] \notin {Undefined, "", "undefined", "null"}
          /\ trim(last.result[key]) # ""
          /\ last.result[key] \notin C19_QuoteArtifacts

\* The process environment gives REACT_APP_API_URL the empty string, which
\* overrides every file, and the loader has returned a map without the key.
C19_Witness ==
    /\ last.op = "loadEnvironmentVariables"
    /\ ~last.threw
    /\ Lookup(env, REACT_APP_API_URL) = ""
    /\ <<".env">> \in DOMAIN fsys.dotenv
    /\ REACT_APP_API_URL \notin DOMAIN last.result
    /\ VITE_API_URL \in DOMAIN last.result

\* C19 as first stated: no value of the returned map is made only of quote
\* characters.
C19_NoQuoteOnlyValue ==
    (last.op = "loadEnvironmentVariables" /\ ~last.threw) =>
       \A key \in DOMAIN last.result :
          \E i \in 1..Len(last.result[key]) :
             SubSeq(last.result[key], i, i) \notin Quotes

\* inject has loaded the environment itself, in a React / VITE project
C20_ReactInjectLoaded ==
    /\ last.op = "inject"
    /\ ~last.threw
    /\ ~last.hasEnvVars
    /\ isReactProject(fsys, last.projectRoot)
    /\ ~isAngularProject(fsys, last.projectRoot)

\* C20: when inject loads the environment variables itself in a React /
\* VITE project, the only variables of the process environment that enter
\* the map used to resolve placeholders, reported as envVars, are those
\* whose name starts with REACT_APP_ or VITE_; a placeholder naming an
\* unprefixed process variable stays unresolved in the emitted CSP.
C20_OnlyPrefixedProcessVars ==
    C20_ReactInjectLoaded =>
       /\ \A key \in DOMAIN last.envVars \cap DOMAIN env :
             startsWith(key, ENV_PREFIXES.REACT) \/ startsWith(key, ENV_PREFIXES.VITE)
       /\ ~Contains(last.cspString, env[API_TOKEN])

\* ------------------------------------------------------------------------
\* The command line (cli): the inject command and its --dry-run mode

\* The value of an option given without a value: true
FlagOnly == <<"<true>">>

\* buildInjectOptions(options): an option enters only with the type asked
\* for, a string for --html and --config, a boolean for --dev
buildInjectOptions(options) ==
    [devMode    |-> IF options.dev = "true" THEN "true" ELSE "omitted",
     htmlPath   |-> IF options.html = FlagOnly THEN NoPath ELSE options.html,
     configPath |-> IF options.config = FlagOnly THEN NoPath ELSE options.config,
     hasEnvVars |-> FALSE, envVars |-> EmptyMap,
     hasConfig  |-> FALSE, config |-> EmptyPartialConfig]

\* findHTMLForDryRun: [kind, path]; "exit" is process.exit(1) after the
\* 'not found' messages, "throws" the error of reading a directory
findHTMLForDryRun(f, injectOptions) ==
    IF injectOptions.htmlPath # NoPath
    THEN IF ~existsSync(f, injectOptions.htmlPath) THEN [kind |-> "exit", path |-> NoPath]
         ELSE IF isDirectory(f, injectOptions.htmlPath) THEN [kind |-> "throws", path |-> NoPath]
         ELSE [kind |-> "found", path |-> injectOptions.htmlPath]
    ELSE LET detected == detectHTML(f, injectOptions.devMode = "true")
         IN  IF detected.kind = "null" THEN [kind |-> "exit", path |-> NoPath]
             ELSE IF detected.kind = "throws" THEN [kind |-> "throws", path |-> NoPath]
             ELSE [kind |-> "found", path |-> detected.path]

\* determineProjectRootForDryRun, for the directory names of the model
determineProjectRootForDryRun(f, injectOptions, htmlPath) ==
    LET n == Len(htmlPath)
    IN  IF injectOptions.configPath # NoPath
        THEN SubSeq(injectOptions.configPath, 1, Len(injectOptions.configPath) - 1)
        ELSE IF /\ n >= 4
                /\ htmlPath[n - 3] = "projects"
                /\ htmlPath[n - 1] = "src"
                /\ htmlPath[n] = "index.html"
                /\ existsSync(f, SubSeq(htmlPath, 1, n - 2) \o
                                   <<"src", "environments", "environment.ts">>)
        THEN SubSeq(htmlPath, 1, n - 2)
        ELSE <<>>

\* setNodeEnvForDryRun: the process environment it leaves and whether it
\* changed it
setNodeEnvForDryRun(e, injectOptions) ==
    IF NodeEnvFalsy(e)
    THEN [env |-> Assign(e, [k \in {NODE_ENV} |->
                               IF injectOptions.devMode = "true" THEN "development"
                               ELSE "production"]),
          shouldRestore |-> TRUE]
    ELSE IF injectOptions.devMode = "true" /\ getNodeEnv(e) = "production"
    THEN [env |-> Assign(e, [k \in {NODE_ENV} |-> "development"]), shouldRestore |-> TRUE]
    ELSE IF injectOptions.devMode = "false" /\ getNodeEnv(e) = "development"
    THEN [env |-> Assign(e, [k \in {NODE_ENV} |-> "production"]), shouldRestore |-> TRUE]
    ELSE [env |-> e, shouldRestore |-> FALSE]

\* A restoreNodeEnv that leaves NODE_ENV as the dry run set it
restoreNodeEnvNever(e, originalNodeEnv, shouldRestore) == e

\* restoreNodeEnv(originalNodeEnv, shouldRestore) applied to environment e
restoreNodeEnv(e, originalNodeEnv, shouldRestore) ==
    IF shouldRestore
    THEN IF originalNodeEnv # Undefined
         THEN Assign(e, [k \in {NODE_ENV} |-> originalNodeEnv])
         ELSE DeleteKey(e, NODE_ENV)
    ELSE e

\* handleDryRunCommand(injectOptions): the exit code of the process, the
\* file system and the process environment it leaves, and what it reports
handleDryRunCommand(f, e, injectOptions) ==
    LET found == findHTMLForDryRun(f, injectOptions)
        projectRoot == determineProjectRootForDryRun(f, injectOptions, found.path)
        originalNodeEnv == getNodeEnv(e)
        setup   == setNodeEnvForDryRun(e, injectOptions)
        threw   == loadEnvironmentVariablesThrows(f, setup.env, projectRoot, NoPath)
        envVars == CSPInjector_loadEnvironmentVariables(f, setup.env, projectRoot)
        config  == loadConfig(f, injectOptions.configPath, envVars)
    IN  IF found.kind # "found"
        THEN [exit |-> 1, fsys |-> f, env |-> e, htmlPath |-> NoPath,
              envVars |-> EmptyMap, useNonce |-> FALSE]
        ELSE [exit     |-> IF threw THEN 1 ELSE 0,
              fsys     |-> f,
              env      |-> restoreNodeEnv(setup.env, originalNodeEnv, setup.shouldRestore),
              htmlPath |-> found.path,
              envVars  |-> IF threw THEN EmptyMap ELSE envVars,
              useNonce |-> IF threw THEN FALSE ELSE config.useNonce]

\* The end of the inject command after CSPInjector.inject gave r: the
\* success message, or the error handler that ends the process
handleInjectResult(r) ==
    [exit |-> IF r.threw THEN 1 ELSE 0, fsys |-> r.fsys, env |-> r.env,
     htmlPath |-> r.htmlPath, envVars |-> r.envVars,
     useNonce |-> r.nonce # Undefined]

\* injectCommand(options): the dry run, or CSPInjector.inject with the
\* error handler that ends the process
injectCommand(f, e, options, random) ==
    IF options.dryRun
    THEN handleDryRunCommand(f, e, buildInjectOptions(options))
    ELSE handleInjectResult(inject(f, e, buildInjectOptions(options), random))

\* ------------------------------------------------------------------------
\* Specification SpecCli: one run of the inject command in each project of
\* Spec, with every combination of --html, --config, --dev and --dry-run

CliHtmlOptions ==
    {NoPath, FlagOnly, <<"public", "index.html">>, <<"projects", "app1", "src", "index.html">>,
     <<"public">>, <<"dist", "index.html">>}

InjectCommandCall ==
    /\ last.op = "none"
    /\ \E html \in CliHtmlOptions, config \in {NoPath, FlagOnly, <<"csp.config.json">>},
          dev \in {"omitted", "true", "yes"}, dryRun \in BOOLEAN :
       \E random \in IF dryRun THEN {"low"} ELSE {"low", "high"} :
          LET options == [html |-> html, config |-> config, dev |-> dev, dryRun |-> dryRun]
          IN  \E r \in {injectCommand(fsys, env, options, random)} :
                 /\ env' = r.env
                 /\ fsys' = r.fsys
                 /\ last' = [op |-> "injectCommand", options |-> options, exit |-> r.exit,
                             nodeEnvBefore |-> getNodeEnv(env), htmlPath |-> r.htmlPath,
                             envVars |-> r.envVars, useNonce |-> r.useNonce]

NextCli == InjectCommandCall

SpecCli == Init /\ [][NextCli]_vars

\* C21: the inject command run with --dry-run changes nothing: the file
\* system after it is the file system before it (the target HTML file and
\* every other file as they were) and NODE_ENV is what it was before, set
\* or unset, for every combination of --html, --config and --dev.
C21_DryRunChangesNothing ==
    [][(last'.op = "injectCommand" /\ last'.options.dryRun) =>
          (fsys' = fsys /\ env' = env)]_vars

\* A dry run has reported on a project where NODE_ENV was unset: it loaded
\* the variables in production mode, the HTML file is as it was and
\* NODE_ENV is unset again.
C21_Witness ==
    /\ last.op = "injectCommand"
    /\ last.options.dryRun
    /\ last.exit = 0
    /\ last.nodeEnvBefore = Undefined
    /\ Lookup(last.envVars, NODE_ENV) = "production"
    /\ NODE_ENV \notin DOMAIN env
    /\ last.htmlPath \in DOMAIN fsys.html
    /\ fsys.html[last.htmlPath] = BasicHtml

\* ------------------------------------------------------------------------
\* The project classifier (utils/project-detection)

isViteProject(f, projectRoot) ==
    \/ existsSync(f, projectRoot \o <<"vite.config.js">>)
    \/ existsSync(f, projectRoot \o <<"vite.config.ts">>)

\* detectAngularType(projectRoot): "null" when the directory has no
\* angular.json; the model holds one angular.json, in the working directory
detectAngularType(f, projectRoot) ==
    IF ~existsSync(f, projectRoot \o <<"angular.json">>) THEN "null"
    ELSE IF f.angular.state = "ok" /\ Len(f.angular.projects) > 1 THEN "angular-workspace"
    ELSE "angular-standalone"

\* A detectProjectType that looks for angular.json before the VITE files
detectProjectTypeAngularFirst(f, projectRoot) ==
    IF detectAngularType(f, projectRoot) # "null" THEN detectAngularType(f, projectRoot)
    ELSE IF isViteProject(f, projectRoot) THEN "react-vite"
    ELSE IF isAngularProject(f, projectRoot) THEN "angular-standalone"
    ELSE IF isReactProject(f, projectRoot) THEN "react-cra"
    ELSE "unknown"

\* detectProjectType(projectRoot)
detectProjectType(f, projectRoot) ==
    IF isViteProject(f, projectRoot) THEN "react-vite"
    ELSE IF detectAngularType(f, projectRoot) # "null" THEN detectAngularType(f, projectRoot)
    ELSE IF isAngularProject(f, projectRoot) THEN "angular-standalone"
    ELSE IF isReactProject(f, projectRoot) THEN "react-cra"
    ELSE "unknown"

\* ------------------------------------------------------------------------
\* Specification SpecClassify: the classifier and the environment loader
\* over directories holding every mix of VITE, Angular and React markers

\* The files besides angular.json, package.json, the .env files and the
\* environment files: each set is what one project holds
ClassifyOtherFiles ==
    (SUBSET {<<"vite.config.ts">>, <<".angular-cli.json">>, <<"projects", "lib", "README.md">>})
      \cup {{<<"vite.config.js">>}}

InitClassify ==
    /\ \E nodeEnv \in {Undefined, "production"} : env = ProcessEnv(nodeEnv, Undefined)
    /\ \E other \in ClassifyOtherFiles,
          ng \in {NoAngularJson, InvalidAngularJson, AngularJsonNoProjects,
                  AngularJson(<<Main>>), AngularJson(<<Main, App1>>)},
          kMain \in {"absent", "urls"}, kApp1 \in {"absent", "urls"},
          pkg \in {NoPackageJson, [state |-> "invalid", deps |-> {}],
                   PackageJson({"react"}), PackageJson({"@types/react"}), PackageJson({"vue"})},
          kind \in {"absent", "react", "vite"} :
          fsys = [EmptyFS EXCEPT
                    !.other   = other,
                    !.angular = ng,
                    !.ngenv   = Assign(NgEnvFiles("main", Main.sourceRoot, kMain),
                                       NgEnvFiles("app1", App1.sourceRoot, kApp1)),
                    !.pkg     = pkg,
                    !.dotenv  = DotEnvFiles([n \in DotEnvNames |->
                                               IF n = ".env" THEN kind ELSE "absent"])]
    /\ last = [op |-> "none"]

DetectProjectTypeCall ==
    \E root \in {<<>>, <<"projects", "app1">>} :
       /\ last' = [op |-> "detectProjectType", root |-> root,
                   result |-> detectProjectType(fsys, root)]
       /\ UNCHANGED <<env, fsys>>

NextClassify == DetectProjectTypeCall \/ LoadEnvironmentVariablesCall

SpecClassify == InitClassify /\ [][NextClassify]_vars

\* The file called name exists in the directory of the last call
C22_Has(name) == (last.root \o name) \in Files(fsys) \/ isDirectory(fsys, last.root \o name)

\* The type the decision order of the claim gives the directory of the
\* last call, from the files that exist there
C22_Expected ==
    LET atRoot == last.root = <<>>
    IN  IF C22_Has(<<"vite.config.js">>) \/ C22_Has(<<"vite.config.ts">>) THEN "react-vite"
        ELSE IF atRoot /\ fsys.angular.state # "absent"
        THEN (IF fsys.angular.state = "ok" /\ Len(fsys.angular.projects) > 1
              THEN "angular-workspace" ELSE "angular-standalone")
        ELSE IF \/ C22_Has(<<".angular-cli.json">>)
                \/ C22_Has(<<"src", "environments">>)
                \/ C22_Has(<<"projects">>)
        THEN "angular-standalone"
        ELSE IF /\ atRoot /\ fsys.pkg.state = "ok"
                /\ ("react" \in fsys.pkg.deps \/ "@types/react" \in fsys.pkg.deps)
        THEN "react-cra"
        ELSE "unknown"

\* C22: detectProjectType follows a first-match-wins order: react-vite if
\* vite.config.js or vite.config.ts exists; else, with an angular.json,
\* angular-workspace when it parses and defines more than one project and
\* angular-standalone otherwise (a parse failure included); else
\* angular-standalone if another Angular marker exists; else react-cra if
\* package.json lists react or @types/react; else unknown.
C22_FirstMatchWins ==
    last.op = "detectProjectType" => last.result = C22_Expected

\* A directory with vite.config.ts, an angular.json declaring two projects
\* and a package.json listing react has been classified react-vite.
C22_Witness ==
    /\ last.op = "detectProjectType"
    /\ last.root = <<>>
    /\ <<"vite.config.ts">> \in fsys.other
    /\ fsys.angular.state = "ok" /\ Len(fsys.angular.projects) = 2
    /\ fsys.pkg = PackageJson({"react"})
    /\ last.result = "react-vite"

\* C29: the classifier and the environment loader agree: for a directory
\* that detectProjectType classifies as react-vite or react-cra,
\* loadEnvironmentVariables takes the React / VITE path, so every valid
\* REACT_APP_ or VITE_ variable of the directory's .env files is in the
\* map it returns.
C29_ClassifierAndLoaderAgree ==
    (/\ last.op = "loadEnvironmentVariables"
     /\ ~last.threw
     /\ detectProjectType(fsys, last.root) \in {"react-vite", "react-cra"}) =>
       \A key \in {REACT_APP_API_URL, VITE_API_URL} :
          LET value == C8_FileValue(last.root \o <<".env">>, key)
          IN  isValidEnvironmentValue(value) => Lookup(last.result, key) = value

\* C23: after a config file is parsed, no object of the parsed
\* configuration (the top level, the directives mapping) has a key named
\* __proto__, constructor or prototype, so no such key is a directive name
\* or a property of the effective configuration.
C23_NoPollutionKeys ==
    last.op = "loadConfig" =>
       /\ DirectiveNames(last.config.directives) \cap PollutionKeys = {}
       /\ last.config.has \cap PollutionKeys = {}

\* ------------------------------------------------------------------------
\* Specification SpecMerge: an overriding layer (the configuration of a
\* file, options.config, the configuration given to the constructor) merged
\* over a base

\* The directives objects of the overriding layers: up to two directives,
\* among them one that is not in the base and an empty list
MergeDirectives ==
    LET items == {Directive("script-src", <<"'self'", "https://cdn.example.com">>),
                  Directive("script-src", <<>>),
                  Directive("img-src", <<"https://img.example.com">>),
                  Directive("frame-ancestors", <<"'none'">>)}
    IN  {d \in SeqsUpTo(items, 2) : Len(d) = 2 => d[1].name # d[2].name}

\* The overriding layers: every set of flags given, with values that
\* differ from both bases where the layer gives them
MergeLayers ==
    {[directives |-> d, has |-> h,
      useNonce |-> IF "useNonce" \in h THEN u ELSE FALSE,
      nonceLength |-> IF "nonceLength" \in h THEN 32 ELSE 0,
      reportOnly |-> "reportOnly" \in h] :
        d \in MergeDirectives, h \in SUBSET ConfigFields, u \in BOOLEAN}

InitMerge ==
    /\ env = EmptyMap
    /\ fsys = EmptyFS
    /\ \E config \in MergeLayers : last = [op |-> "none", config |-> config]

MergeConfigWithDefaultsCall ==
    /\ last.op = "none"
    /\ \E base \in {DEFAULT_CONFIG, PRODUCTION_CONFIG} :
          last' = [op |-> "mergeConfigWithDefaults", base |-> base, config |-> last.config,
                   merged |-> mergeConfigWithDefaults(base, last.config)]
    /\ UNCHANGED <<env, fsys>>

\* new CSPInjector(config): this.config is config merged over DEFAULT_CONFIG
NewCSPInjector ==
    /\ last.op = "none"
    /\ last' = [op |-> "CSPInjector", base |-> DEFAULT_CONFIG, config |-> last.config,
                merged |-> mergeConfigWithDefaults(DEFAULT_CONFIG, last.config)]
    /\ UNCHANGED <<env, fsys>>

NextMerge == MergeConfigWithDefaultsCall \/ NewCSPInjector

SpecMerge == InitMerge /\ [][NextMerge]_vars

\* C24: when an overriding layer is merged over a base, each directive the
\* layer names has exactly the layer's list (the base list is replaced,
\* never appended to), each directive only the base names keeps the base
\* list, no other directive appears, and each top-level flag the layer
\* gives replaces the base's flag, the others staying as in the base.
C24_LayerOverrides ==
    last.op \in {"mergeConfigWithDefaults", "CSPInjector"} =>
       LET merged == last.merged.directives
           layer  == last.config.directives
           base   == last.base.directives
       IN  /\ DirectiveNames(merged) = DirectiveNames(base) \cup DirectiveNames(layer)
           /\ Len(merged) = Cardinality(DirectiveNames(merged))
           /\ \A i \in 1..Len(merged) :
                 merged[i].values =
                    IF merged[i].name \in DirectiveNames(layer)
                    THEN DirectiveValues(layer, merged[i].name)
                    ELSE DirectiveValues(base, merged[i].name)
           /\ last.merged.useNonce =
                 (IF "useNonce" \in last.config.has THEN last.config.useNonce
                  ELSE last.base.useNonce)
           /\ last.merged.nonceLength =
                 (IF "nonceLength" \in last.config.has THEN last.config.nonceLength
                  ELSE last.base.nonceLength)
           /\ last.merged.reportOnly =
                 (IF "reportOnly" \in last.config.has THEN last.config.reportOnly
                  ELSE last.base.reportOnly)

\* A layer with an empty script-src list and useNonce false has been merged
\* over the production base: script-src is empty, img-src is the base's
\* and useNonce is false.
C24_Witness ==
    /\ last.op = "mergeConfigWithDefaults"
    /\ last.base = PRODUCTION_CONFIG
    /\ last.config.directives = <<Directive("script-src", <<>>)>>
    /\ last.config.has = {"useNonce"} /\ ~last.config.useNonce
    /\ DirectiveValues(last.merged.directives, "script-src") = <<>>
    /\ DirectiveValues(last.merged.directives, "img-src") = <<"'self'", "data:", "blob:">>
    /\ ~last.merged.useNonce
    /\ last.merged.nonceLength = PRODUCTION_CONFIG.nonceLength

\* inject has returned with an explicit options.config: the options.config
\* of the model turns reportOnly on, which no built-in configuration and no
\* config file of the model does
C25_ExplicitConfig ==
    /\ last.op = "inject"
    /\ ~last.threw
    /\ last.reportOnly

\* C25: with an explicit options.config, every directive and flag that
\* options.config does not give has the value of the built-in layer of the
\* mode: with devMode = false script-src has no 'unsafe-inline' and a nonce
\* of 24 bytes is generated (useNonce true, nonceLength 24), with
\* devMode = true script-src is 'self' 'unsafe-inline' and there is no nonce.
C25_ExplicitOverModeLayer ==
    C25_ExplicitConfig =>
       /\ last.devMode = "false" =>
             /\ ~Contains(last.cspString, "script-src 'self' 'unsafe-inline'")
             /\ last.nonce \in {generateNonce(PRODUCTION_CONFIG, random) :
                                  random \in {"low", "high"}}
       /\ last.devMode = "true" =>
             /\ Contains(last.cspString, "script-src 'self' 'unsafe-inline'")
             /\ last.nonce = Undefined

\* loadConfig has run without using a config file (none can be read, or the
\* one read does not parse) on a map with a REACT_APP_, VITE_ or NG_ name,
\* the NODE_ENV entry of the map naming the mode the process is in
C26_EnhancedCase ==
    /\ last.op = "loadConfig"
    /\ ~C14_Usable(readConfigFile(fsys, last.configPath), last.envVars)
    /\ \E key \in DOMAIN last.envVars :
          Head(key) \in {ENV_PREFIXES.REACT, ENV_PREFIXES.VITE, ENV_PREFIXES.ANGULAR}
    /\ (Lookup(last.envVars, NODE_ENV) = "production") <=> isProduction(env)

C27_SearchAndEnvModesAgree ==
    (/\ last.op = "inject"
     /\ ~last.threw
     /\ last.htmlPathOption = NoPath
     /\ ~last.hasEnvVars) =>
       \A key \in DOMAIN last.envVars :
          last.envVars[key] \notin (IF last.devMode = "true" THEN C2_ProductionValues
                                    ELSE C2_DevelopmentValues)

\* C30: the resolveTemplateVariables exported by utils/environment returns,
\* for every template and every variable map, the string the one of
\* utils/config-loader (used by the injector) returns; neither looks a
\* name up under another name when it is not a key of the map.
C30_SameResolution ==
    last.op = "environment.resolveTemplateVariables" =>
       last.result = resolveTemplateVariables(JoinText(last.tokens, ""), last.envVars)

\* ------------------------------------------------------------------------
\* Specification SpecBuiltins: the objects of the configurations.  The
\* static DEFAULT_CONFIG and PRODUCTION_CONFIG are objects every call
\* shares; getDefaultConfigForEnvironment returns one of them itself, and
\* the merges and enhanceConfigWithVariables read them.  The heap holds the
\* configuration objects (configs) and their directives objects (dirs), a
\* configuration object naming its directives object; the directive lists
\* are values, no call writing into a list.

\* The heap with the object literal config allocated at ref, its
\* directives object literal with it
NewObject(h, ref, config) ==
    [configs |-> Assign(h.configs,
                        [r \in {ref} |-> [config EXCEPT !.directives = ref \o ".directives"]]),
     dirs    |-> Assign(h.dirs, [r \in {ref \o ".directives"} |-> config.directives])]

\* What the object at ref holds
ObjectValue(h, ref) == [h.configs[ref] EXCEPT !.directives = h.dirs[@]]

\* The heap once the modules are loaded
StaticObjects ==
    NewObject(NewObject([configs |-> EmptyMap, dirs |-> EmptyMap],
                        "DEFAULT_CONFIG", DEFAULT_CONFIG),
              "PRODUCTION_CONFIG", PRODUCTION_CONFIG)

\* The heap without the objects that no reference of roots reaches
Reachable(h, roots) ==
    LET keep == (roots \cup {"DEFAULT_CONFIG", "PRODUCTION_CONFIG"}) \cap DOMAIN h.configs
    IN  [configs |-> [r \in keep |-> h.configs[r]],
         dirs    |-> [d \in {h.configs[r].directives : r \in keep} |-> h.dirs[d]]]

\* getDefaultConfigForEnvironment(baseConfigs, envVars): the reference it
\* returns
getDefaultConfigForEnvironmentRef(envVars) ==
    IF Lookup(envVars, NODE_ENV) = "production" THEN "PRODUCTION_CONFIG" ELSE "DEFAULT_CONFIG"

\* An enhanceConfigWithVariables whose enhancedDirectives is the directives
\* object of baseConfig itself
enhanceConfigWithVariablesInPlace(h, baseConfig, variables, result) ==
    LET enhanced == enhanceConfigWithVariables(ObjectValue(h, baseConfig), variables)
    IN  [configs |-> Assign(h.configs, [r \in {result} |-> h.configs[baseConfig]]),
         dirs    |-> [h.dirs EXCEPT ![h.configs[baseConfig].directives] = enhanced.directives]]

\* enhanceConfigWithVariables(baseConfig, variables) on the heap:
\* enhancedDirectives is a new object holding the properties of
\* baseConfig.directives, the placeholders are written into it, and the
\* object returned (at result) is new as well
enhanceConfigWithVariablesObjects(h, baseConfig, variables, result) ==
    NewObject(h, result, enhanceConfigWithVariables(ObjectValue(h, baseConfig), variables))

\* The userConfig loadConfigFromFile parses from the file it found
userConfigOfFile(f, envVars, configPath) ==
    LET file == f.config[readConfigFile(f, configPath)]
    IN  safeJsonParse([file.cfg EXCEPT !.directives = ResolveDirectives(@, envVars)])

\* loadConfig(baseConfigs, configPath, envVars) on the heap: [heap, config],
\* config being the reference returned: a new object (at result) for a
\* configuration file or enhanced defaults, else the built-in object itself
loadConfigObjects(h, f, configPath, envVars, result) ==
    LET baseConfig    == getDefaultConfigForEnvironmentRef(envVars)
        frameworkVars == getFrameworkEnvironmentVariables(envVars)
    IN  IF loadConfigFromFile(f, envVars, configPath).found
        THEN [heap   |-> NewObject(h, result,
                            mergeConfigWithDefaults(ObjectValue(h, baseConfig),
                                                    userConfigOfFile(f, envVars, configPath))),
              config |-> result]
        ELSE IF frameworkVars # <<>>
        THEN [heap   |-> enhanceConfigWithVariablesObjects(h, baseConfig, frameworkVars, result),
              config |-> result]
        ELSE [heap |-> h, config |-> baseConfig]

\* new CSPInjector(config, envVars) on the heap: this.config is a new
\* object, the merge of the object config refers to ("omitted": none) over
\* DEFAULT_CONFIG
CSPInjectorObjects(h, config, result) ==
    NewObject(h, result,
              mergeConfigWithDefaults(ObjectValue(h, "DEFAULT_CONFIG"),
                                      IF config = "omitted" THEN EmptyPartialConfig
                                      ELSE ObjectValue(h, config)))

\* CSPInjector.inject(options) on the heap, r being what the call gives:
\* the configuration and the injector are objects of the call
injectObjects(h, f, options, r) ==
    IF r.threw /\ r.error # "Failed to inject CSP" THEN h
    ELSE LET loaded == IF options.hasConfig
                       THEN [heap   |-> NewObject(h, "inject.config",
                                           mergeConfigWithDefaults(
                                              ObjectValue(h, "DEFAULT_CONFIG"), options.config)),
                             config |-> "inject.config"]
                       ELSE loadConfigObjects(h, f, options.configPath, r.envVars,
                                              "inject.config")
         IN  CSPInjectorObjects(loaded.heap, loaded.config, "inject.injector")

\* The variable maps given to loadConfig and to the constructor
BuiltinsEnvVars ==
    {EmptyMap,
     [k \in {REACT_APP_API_URL} |-> "https://api.example.com"],
     [k \in {NODE_ENV, VITE_API_URL} |->
        IF k = NODE_ENV THEN "production" ELSE "https://api.example.com"]}

\* A React project with public/index.html and .env.development, with or
\* without csp.config.json, NODE_ENV unset or 'production'; the caller holds no configuration and no
\* injector yet
InitBuiltins ==
    /\ \E nodeEnv \in {Undefined, "production"} :
          env = ProcessEnv(nodeEnv, Undefined)
    /\ \E cfg \in {"absent", "ok"} :
          fsys = [EmptyFS EXCEPT
                    !.dotenv = DotEnvFiles([n \in DotEnvNames |->
                                              IF n = ".env.development" THEN "react"
                                              ELSE "absent"]),
                    !.pkg    = PackageJson({"react"}),
                    !.config = ConfigFiles(cfg),
                    !.html   = [p \in {<<"public", "index.html">>} |-> BasicHtml]]
    /\ last = [op |-> "none", heap |-> StaticObjects, config |-> "none",
               injector |-> FALSE, envVars |-> EmptyMap, cspString |-> ""]

\* config = CSPInjector.loadConfig(configPath, envVars)
BuiltinsLoadConfig ==
    \E configPath \in {NoPath, <<"csp.config.json">>}, envVars \in BuiltinsEnvVars :
       \E r \in {loadConfigObjects(last.heap, fsys, configPath, envVars, "config")} :
          /\ last' = [last EXCEPT !.op = "loadConfig",
                                  !.heap = Reachable(r.heap, {r.config} \cup
                                              (IF last.injector THEN {"this.config"} ELSE {})),
                                  !.config = r.config]
          /\ UNCHANGED <<env, fsys>>

\* injector = new CSPInjector(config, envVars), config being the one last
\* loaded, or omitted
BuiltinsNewCSPInjector ==
    \E config \in {"omitted"} \cup ({last.config} \ {"none"}), envVars \in BuiltinsEnvVars :
       /\ last' = [last EXCEPT !.op = "CSPInjector",
                               !.heap = CSPInjectorObjects(last.heap, config, "this.config"),
                               !.injector = TRUE,
                               !.envVars = envVars]
       /\ UNCHANGED <<env, fsys>>

\* injector.buildCSP(nonce)
BuiltinsBuildCSP ==
    /\ last.injector
    /\ last' = [last EXCEPT !.op = "buildCSP",
                            !.cspString = buildCSP(ObjectValue(last.heap, "this.config"),
                                                   last.envVars, "AAECAw==")]
    /\ UNCHANGED <<env, fsys>>

\* injector.injectCSP(htmlPath)
BuiltinsInjectCSP ==
    /\ last.injector
    /\ \E htmlPath \in {<<"public", "index.html">>, <<"dist", "index.html">>} :
       LET config == ObjectValue(last.heap, "this.config")
           nonce  == IF config.useNonce /\ htmlPath \in DOMAIN fsys.html
                     THEN generateNonce(config, "low") ELSE Undefined
       IN  \E r \in {injectCSP(fsys, htmlPath, config.reportOnly,
                               buildCSP(config, last.envVars, nonce))} :
              /\ fsys' = r.fsys
              /\ last' = [last EXCEPT !.op = "injectCSP", !.cspString = r.cspString]
    /\ UNCHANGED env

\* CSPInjector.inject(options)
BuiltinsInject ==
    \E devMode \in {"true", "false"}, hasConfig \in BOOLEAN :
       LET options == [devMode |-> devMode, htmlPath |-> NoPath, configPath |-> NoPath,
                       hasEnvVars |-> FALSE,
                       envVars |-> EmptyMap,
                       hasConfig |-> hasConfig,
                       config |-> IF hasConfig THEN OptionConfig ELSE EmptyPartialConfig]
       IN  \E r \in {inject(fsys, env, options, "low")} :
              /\ env' = r.env
              /\ fsys' = r.fsys
              /\ last' = [last EXCEPT
                            !.op = "inject",
                            !.heap = Reachable(injectObjects(last.heap, fsys, options, r),
                                        ({last.config} \ {"none"}) \cup
                                        (IF last.injector THEN {"this.config"} ELSE {})),
                            !.cspString = r.cspString]

NextBuiltins ==
    \/ BuiltinsLoadConfig
    \/ BuiltinsNewCSPInjector
    \/ BuiltinsBuildCSP
    \/ BuiltinsInjectCSP
    \/ BuiltinsInject

SpecBuiltins == InitBuiltins /\ [][NextBuiltins]_vars

\* C28: after any sequence of loadConfig, CSPInjector construction,
\* buildCSP, injectCSP and inject calls, the objects DEFAULT_CONFIG and
\* PRODUCTION_CONFIG hold what they held when the module was loaded, every
\* directive list included: no call writes into the shared objects.
C28_BuiltinsKeepTheirValues ==
    /\ ObjectValue(last.heap, "DEFAULT_CONFIG") = DEFAULT_CONFIG
    /\ ObjectValue(last.heap, "PRODUCTION_CONFIG") = PRODUCTION_CONFIG

\* injectCSP has written the policy of an injector built from enhanced
\* production defaults: its connect-src is the built-in list followed by a
\* placeholder, and the configuration the caller holds is a new object
C28_Witness ==
    /\ last.op = "injectCSP"
    /\ last.config = "config"
    /\ DirectiveValues(ObjectValue(last.heap, "config").directives, "connect-src")
         = <<"'self'", Var(VITE_API_URL)>>
    /\ DirectiveValues(ObjectValue(last.heap, "this.config").directives, "connect-src")
         = <<"'self'", Var(VITE_API_URL)>>
    /\ ObjectValue(last.heap, "this.config").useNonce

=============================================================================
